---- MODULE Spec2Model ----
(***************************************************************************)
(* Model of the OBD-II tool's protocol session core:                       *)
(*   - RelearnManager (src/src/procedures/relearn.py): the procedure run   *)
(*     state machine start_procedure / execute_next_step / cancel_procedure*)
(*     driving OBDInterface._send_command (src/src/core/obd_interface.py); *)
(*   - OBDManager.connect / disconnect (src/src/core/obd_manager.py) over  *)
(*     AdapterManager, ELM327Adapter and ProtocolHandler, and              *)
(*     ProtocolHandler.send_command (src/src/core/protocol_handler.py);    *)
(*   - ELM327Adapter.send_command (src/src/hardware/elm327.py) over        *)
(*     SerialConnection (src/src/hardware/connection_types.py): framing    *)
(*     and pacing of commands;                                             *)
(*   - OBDManager.start_monitoring / stop_monitoring: the monitoring       *)
(*     threads and the caller's thread on the shared transport;            *)
(*   - DTCManager (src/src/core/dtc_manager.py): reading, decoding and     *)
(*     clearing trouble codes, and the two decoders of a trouble-code      *)
(*     word, DTCManager._decode_dtc and OBDInterface._hex_to_dtc;          *)
(*   - DataParser (src/src/core/data_parser.py): cleaning a raw response   *)
(*     and verifying it against the command.                               *)
(* Text is modelled as sequences of one-character strings, so that         *)
(* substring tests, strip and case folding are computed as the code does.  *)
(***************************************************************************)
EXTENDS Integers, Sequences, FiniteSets, TLC

VARIABLES
    \* RelearnManager fields (relearn.py:56-58)
    current_procedure, procedure_status, current_step,
    \* OBDInterface.is_connected (obd_interface.py:27)
    obd_is_connected,
    \* observation of the last relearn call: its name, return value, the number
    \* of commands it wrote to the vehicle and the response it got; the number
    \* of execute_next_step calls since the last successful start_procedure
    lastOp, ret, sends, last_response, calls,
    \* an in-flight execute_next_step of the interleaved specification: its
    \* position and its local variable `step`
    pc, fetched

relearnVars == <<current_procedure, procedure_status, current_step,
                 obd_is_connected, lastOp, ret, sends, last_response, calls,
                 pc, fetched>>

VARIABLES
    \* the connection objects AdapterManager.connect has created, by number:
    \* "unused" (not created yet), "open" or "closed" (BaseConnection.is_open)
    transports,
    \* AdapterManager fields (adapter_manager.py:32-35): the number of the
    \* connection (0 for None), the adapter, the connected flag
    am_connection, am_adapter, am_connected,
    \* ProtocolHandler fields (protocol_handler.py:52-54)
    ph_initialized, ph_current_protocol,
    \* OBDManager.connected (obd_manager.py:84)
    om_connected,
    \* the last call on the session and whether it returned a true (non-null)
    \* value
    mgr_lastOp, mgr_ret,
    \* the commands the last call passed to ELM327Adapter.send_command, in
    \* order
    issued,
    \* when the last call was ProtocolHandler.send_command: the adapter's
    \* reply and the value returned (None otherwise)
    ph_raw, ph_ret,
    \* when the last call was OBDManager.connect: the reply to its Mode 01
    \* PID 00 probe (None otherwise)
    probe_reply

managerVars == <<transports, am_connection, am_adapter, am_connected,
                 ph_initialized, ph_current_protocol, om_connected,
                 mgr_lastOp, mgr_ret, issued, ph_raw, ph_ret, probe_reply>>

VARIABLES
    \* the bytes the adapter has put on the line that the connection has not
    \* read yet
    rx,
    \* time.time()
    now,
    \* ELM327Adapter.last_command_time (elm327.py:49)
    last_command_time,
    \* when the last ELM327Adapter.send_command call reached connection.send
    write_time,
    \* the ELM327Adapter.send_command calls so far; whether the last one
    \* wrote its command, and what it returned
    ad_calls, ad_wrote, ad_ret

adapterVars == <<rx, now, last_command_time, write_time, ad_calls, ad_wrote,
                 ad_ret>>

VARIABLES
    \* OBDManager.monitoring_active and whether _monitoring_callback is set
    \* (obd_manager.py:87-88)
    monitoring_active, monitoring_callback,
    \* the monitoring threads start_monitoring has created: the position of
    \* each in monitor_loop, the pids left to query in this round and whether
    \* its results are non-empty
    threads,
    \* the caller's thread: "idle", or "receive" between the send and the
    \* receive of a command
    user_pc,
    \* the owners of the commands sent whose reply has not been read, in the
    \* order the adapter answers them
    line,
    \* whether some receive has read the reply to another thread's command
    misdelivered,
    \* whether stop_monitoring has returned and start_monitoring has not been
    \* called since
    stopped

monitorVars == <<monitoring_active, monitoring_callback, threads, user_pc,
                 line, misdelivered, stopped>>

VARIABLES
    \* the words the vehicle holds as current, pending and permanent codes
    veh_current, veh_pending, veh_permanent,
    \* DTCManager fields (dtc_manager.py:105-108), as lists of codes
    current_dtcs, pending_dtcs, permanent_dtcs, dtc_history,
    \* the last DTCManager call: its name ("fault" for an event in the
    \* vehicle), whether it got an answer from the vehicle (the value
    \* clear_dtcs returns), the list a read returned; the number of steps so
    \* far
    dtc_lastOp, dtc_ok, dtc_returned, dtc_calls

dtcVars == <<veh_current, veh_pending, veh_permanent, current_dtcs,
             pending_dtcs, permanent_dtcs, dtc_history, dtc_lastOp, dtc_ok,
             dtc_returned, dtc_calls>>

VARIABLES
    \* the last decoding call: the text given, the function called
    \* ("decode_dtc" for DTCManager._decode_dtc, "hex_to_dtc" for
    \* OBDInterface._hex_to_dtc, "clean_response" for
    \* ELM327Adapter._clean_response) and the Optional[str] it returned
    dec_word, dec_fn, dec_code

decodeVars == <<dec_word, dec_fn, dec_code>>

VARIABLES
    \* the last DataParser call: the function called ("parse_response" or
    \* "verify_response"), the command and the response text given, the text
    \* that reached _verify_response (parse_response cleans it first) and
    \* whether the response was accepted for the command
    dp_fn, dp_command, dp_response, dp_cleaned, dp_verified,
    \* the value the last DataParser or OBDManager.query_parameter call
    \* returned
    dp_out

parserVars == <<dp_fn, dp_command, dp_response, dp_cleaned, dp_verified,
                dp_out>>

vars == <<relearnVars, managerVars, adapterVars, monitorVars, dtcVars,
          decodeVars, parserVars>>

\* the variables each component leaves alone
notRelearn == <<managerVars, adapterVars, monitorVars, dtcVars, decodeVars,
                parserVars>>
notManager == <<relearnVars, adapterVars, monitorVars, dtcVars, decodeVars,
                parserVars>>
notAdapter == <<relearnVars, managerVars, monitorVars, dtcVars, decodeVars,
                parserVars>>
notMonitor == <<relearnVars, managerVars, adapterVars, dtcVars, decodeVars,
                parserVars>>
notDtc == <<relearnVars, managerVars, adapterVars, monitorVars, decodeVars,
            parserVars>>
notDecode == <<relearnVars, managerVars, adapterVars, monitorVars, dtcVars,
               parserVars>>
notParser == <<relearnVars, managerVars, adapterVars, monitorVars, dtcVars,
               decodeVars>>

-----------------------------------------------------------------------------
(* Text helpers: Python str operations on sequences of characters.         *)

UpperLetters == <<"A","B","C","D","E","F","G","H","I","J","K","L","M",
                  "N","O","P","Q","R","S","T","U","V","W","X","Y","Z">>
LowerLetters == <<"a","b","c","d","e","f","g","h","i","j","k","l","m",
                  "n","o","p","q","r","s","t","u","v","w","x","y","z">>

\* str.lower() on one character
LowerChar(c) ==
    IF \E i \in 1..Len(UpperLetters) : UpperLetters[i] = c
    THEN LowerLetters[CHOOSE i \in 1..Len(UpperLetters) : UpperLetters[i] = c]
    ELSE c

\* str.upper() on one character
UpperChar(c) ==
    IF \E i \in 1..Len(LowerLetters) : LowerLetters[i] = c
    THEN UpperLetters[CHOOSE i \in 1..Len(LowerLetters) : LowerLetters[i] = c]
    ELSE c

Lower(s) == [i \in 1..Len(s) |-> LowerChar(s[i])]
Upper(s) == [i \in 1..Len(s) |-> UpperChar(s[i])]

\* Python's `needle in hay`
Contains(hay, needle) ==
    \E i \in 1..(Len(hay) - Len(needle) + 1) :
        SubSeq(hay, i, i + Len(needle) - 1) = needle

Whitespace == {" ", "\r", "\n", "\t"}

\* str.strip()
RECURSIVE LStrip(_)
LStrip(s) == IF s # <<>> /\ Head(s) \in Whitespace THEN LStrip(Tail(s)) ELSE s
RECURSIVE RStrip(_)
RStrip(s) ==
    IF s # <<>> /\ s[Len(s)] \in Whitespace
    THEN RStrip(SubSeq(s, 1, Len(s) - 1)) ELSE s
Strip(s) == RStrip(LStrip(s))

\* str.replace(old, new) for a one-character old; new is a sequence
RECURSIVE ReplaceChar(_, _, _)
ReplaceChar(s, old, new) ==
    IF s = <<>> THEN <<>>
    ELSE (IF Head(s) = old THEN new ELSE <<Head(s)>>)
         \o ReplaceChar(Tail(s), old, new)

\* A value of type Optional[str]
None == [isNone |-> TRUE, text |-> <<>>]
Str(s) == [isNone |-> FALSE, text |-> s]
\* Python truthiness of an Optional[str]: None and "" are falsy
Truthy(r) == ~r.isNone /\ r.text # <<>>

-----------------------------------------------------------------------------
(* Relearn procedure definitions (relearn.py:62-211).                      *)

Null == "null"

\* ProcedureStep (relearn.py:20-29); description and instruction are display
\* text and are left out
Step(n, cmd, wait, val, manual) ==
    [step_number |-> n, command |-> cmd, wait_time |-> wait,
     validation |-> val, is_manual |-> manual]

\* RelearnManager._load_procedures: name -> steps
Procedures ==
    "throttle_body_relearn" :> <<
        Step(1, Null, 2, Null, TRUE),
        Step(2, Null, 10, Null, FALSE),
        Step(3, Null, 5, Null, TRUE),
        Step(4, Null, 180, "temperature>80", FALSE),
        Step(5, "31010203", 5, "positive_response", FALSE),
        Step(6, Null, 120, Null, FALSE),
        Step(7, Null, 30, "rpm>1800", TRUE),
        Step(8, Null, 60, "rpm<1000", TRUE),
        Step(9, "31030203", 5, "positive_response", FALSE),
        Step(10, Null, 2, Null, TRUE),
        Step(11, "22F186", 5, "no_errors", FALSE) >> @@
    "transmission_adaptive" :> <<
        Step(1, "ATSH7E1", 2, Null, FALSE),
        Step(2, "1003", 3, "positive_response", FALSE),
        Step(3, "310105", 5, "positive_response", FALSE),
        Step(4, "310106", 3, "positive_response", FALSE),
        Step(5, Null, 10, Null, TRUE),
        Step(6, Null, 120, "temperature>80", TRUE),
        Step(7, Null, 5, Null, TRUE),
        Step(8, Null, 60, Null, TRUE),
        Step(9, Null, 300, Null, TRUE),
        Step(10, Null, 300, Null, TRUE),
        Step(11, Null, 600, Null, TRUE),
        Step(12, "310107", 5, "positive_response", FALSE),
        Step(13, "22F190", 5, "adaptations_complete", FALSE) >> @@
    "tpms_relearn" :> <<
        Step(1, "31010301", 3, "positive_response", FALSE),
        Step(2, Null, 15, Null, TRUE),
        Step(3, Null, 15, Null, TRUE),
        Step(4, Null, 15, Null, TRUE),
        Step(5, Null, 15, Null, TRUE),
        Step(6, "31030301", 5, "positive_response", FALSE),
        Step(7, "22F192", 5, "all_sensors_ok", FALSE) >> @@
    "fuel_trim_reset" :> <<
        Step(1, "310201", 3, "positive_response", FALSE),
        Step(2, Null, 10, Null, TRUE),
        Step(3, Null, 300, "closed_loop", FALSE),
        Step(4, Null, 600, Null, TRUE),
        Step(5, Null, 30, Null, TRUE),
        Step(6, Null, 300, Null, TRUE),
        Step(7, "220106", 5, "trims_normal", FALSE) >> @@
    "steering_calibration" :> <<
        Step(1, "ATSH7E8", 2, Null, FALSE),
        Step(2, "31010401", 3, "positive_response", FALSE),
        Step(3, Null, 10, Null, TRUE),
        Step(4, Null, 5, Null, TRUE),
        Step(5, "31020401", 10, "positive_response", FALSE),
        Step(6, "22F193", 5, "angle_zero", FALSE),
        Step(7, "31030401", 3, "positive_response", FALSE) >>

ProcedureNames == DOMAIN Procedures

\* names a caller may pass to start_procedure: the known ones and one that is
\* not in the table
StartNames == ProcedureNames \cup {"unknown_procedure"}

\* ProcedureStatus (relearn.py:12-18)
ProcedureStatus ==
    {"not_started", "in_progress", "completed", "failed", "cancelled"}

\* len(self.current_procedure.steps)
StepCount == IF current_procedure = Null THEN 0
             ELSE Len(Procedures[current_procedure])

-----------------------------------------------------------------------------
(* OBDInterface._send_command (obd_interface.py:108-150).                  *)

\* What the adapter delivers before its prompt or the timeout: nothing, a
\* positive reply between line breaks, negative replies (the second with
\* response code 72), the positive reply to 1003, adapter error texts, and
\* status texts in both letter cases.
RawReplies == {
    <<>>,
    <<"\r", "\n", "7", "1", "0", "1", "\r", "\n">>,
    <<"7", "F", "3", "1", "2", "2">>,
    <<"5", "0", "0", "3">>,
    <<"7", "F", "3", "1", "7", "2">>,
    <<"N", "O", " ", "D", "A", "T", "A", "\r">>,
    <<"C", "A", "N", " ", "E", "R", "R", "O", "R">>,
    <<"6", "2", "F", "1", "9", "0", " ", "C", "o", "m", "p", "l", "e", "t", "e">>,
    <<"R", "E", "A", "D", "Y">>,
    <<"o", "k">>,
    <<"O", "K", "\r">> }

\* outcomes of one write+read on the serial port: the write or the read
\* raises, or the characters read before the prompt or the timeout
SendOutcomes ==
    {[raised |-> TRUE, raw |-> <<>>]}
    \cup {[raised |-> FALSE, raw |-> r] : r \in RawReplies}

\* response.strip().replace('\r', '').replace('\n', ' ')  (line 144)
CleanInterfaceResponse(raw) ==
    ReplaceChar(ReplaceChar(Strip(raw), "\r", <<>>), "\n", <<" ">>)

\* the interface refuses to write when it is not connected (line 119)
InterfaceWrites == obd_is_connected

\* the value _send_command returns for an outcome of the port
SendCommandResult(out) ==
    IF ~InterfaceWrites THEN None
    ELSE IF out.raised THEN None
    ELSE Str(CleanInterfaceResponse(out.raw))

-----------------------------------------------------------------------------
(* RelearnManager (relearn.py:42-372).                                     *)

PositiveCodes == { <<"7", "1">>, <<"7", "2">>, <<"7", "3">>, <<"7", "4">>,
                   <<"7", "5">>, <<"7", "6">>, <<"7", "7">> }

\* RelearnManager._validate_response (relearn.py:308-358)
ValidateResponse(response, validation) ==
    IF ~Truthy(response) THEN FALSE
    ELSE CASE validation = "positive_response" ->
                \E code \in PositiveCodes : Contains(response.text, code)
           [] validation = "no_errors" ->
                /\ ~Contains(response.text, <<"N", "O", " ", "D", "A", "T", "A">>)
                /\ ~Contains(response.text, <<"E", "R", "R", "O", "R">>)
           [] validation = "adaptations_complete" ->
                \/ Contains(Lower(response.text),
                            <<"c", "o", "m", "p", "l", "e", "t", "e">>)
                \/ Contains(Lower(response.text), <<"r", "e", "a", "d", "y">>)
           [] validation = "all_sensors_ok" ->
                \/ Contains(response.text, <<"O", "K">>)
                \/ Contains(response.text, <<"R", "E", "A", "D", "Y">>)
           [] OTHER -> TRUE

\* (mutation: the in-progress test is dropped)
StartRejected_NameOnly(name) == name \notin ProcedureNames

\* start_procedure's two early returns (relearn.py:244-250)
StartRejected(name) ==
    \/ name \notin ProcedureNames
    \/ procedure_status = "in_progress"

\* (mutation: the status test of the guard is dropped)
ExecRejected_NoStatusTest == current_procedure = Null

\* execute_next_step's first guard (relearn.py:267)
ExecRejected ==
    \/ current_procedure = Null
    \/ procedure_status # "in_progress"

\* (mutation: the run is declared complete one step early)
ProcedureFinished_Early == current_step + 1 >= StepCount

\* all steps done (relearn.py:270)
ProcedureFinished == current_step >= StepCount

\* the step object fetched at relearn.py:277 (Python indexes from 0)
CurrentStepOf(i) == Procedures[current_procedure][i + 1]

\* the step sends its command (relearn.py:282)
SendsCommand(step) == step.command # Null /\ ~step.is_manual

\* (mutation: a missing response is not validated)
ValidationFails_SkipsMissing(step, response) ==
    /\ step.validation # Null
    /\ Truthy(response)
    /\ ~ValidateResponse(response, step.validation)

\* the step's validation rule rejects the response (relearn.py:286-287)
ValidationFails(step, response) ==
    /\ step.validation # Null
    /\ ~ValidateResponse(response, step.validation)

\* (mutation: the index is advanced by two)
AdvancedStep_Double(i) == i + 2

\* self.current_step += 1 (relearn.py:298)
AdvancedStep(i) == i + 1

\* (mutation: cancel is accepted in every status)
CanCancel_Always == TRUE

\* cancel_procedure's guard (relearn.py:367)
CanCancel == procedure_status = "in_progress"

\* execute_next_step calls counted after one start_procedure
MaxCalls == 15

\* the observation left by a call that wrote nothing to the vehicle
NoSend == /\ sends' = 0
          /\ last_response' = None

InitRelearn ==
    /\ current_procedure = Null
    /\ procedure_status = "not_started"
    /\ current_step = 0
    \* the interface is handed to RelearnManager by its owner (relearn.py:45-53),
    \* connected or not
    /\ obd_is_connected \in BOOLEAN
    /\ lastOp = "none"
    /\ ret = FALSE
    /\ sends = 0
    /\ last_response = None
    /\ calls = 0
    /\ pc = "idle"
    /\ fetched = Null

\* RelearnManager.start_procedure (relearn.py:234-258)
StartProcedure(name) ==
    /\ lastOp' = "start_procedure"
    /\ NoSend
    /\ IF StartRejected(name)
       THEN /\ ret' = FALSE
            /\ UNCHANGED <<current_procedure, procedure_status, current_step, calls>>
       ELSE /\ current_procedure' = name
            /\ procedure_status' = "in_progress"
            /\ current_step' = 0
            /\ calls' = 0
            /\ ret' = TRUE
    /\ UNCHANGED <<obd_is_connected, pc, fetched>>

\* RelearnManager.execute_next_step (relearn.py:260-306), run to its return.
\* _send_command catches every exception itself (obd_interface.py:148-150)
\* and neither _validate_response nor _notify_status_change raises, so the
\* except branch at relearn.py:302-306 is never entered with this interface.
ExecuteNextStep ==
    /\ pc = "idle"
    /\ calls < MaxCalls
    /\ calls' = calls + 1
    /\ lastOp' = "execute_next_step"
    /\ IF ExecRejected
       THEN /\ ret' = FALSE
            /\ NoSend
            /\ UNCHANGED <<procedure_status, current_step>>
       ELSE IF ProcedureFinished
       THEN /\ procedure_status' = "completed"
            /\ ret' = TRUE
            /\ NoSend
            /\ UNCHANGED current_step
       ELSE LET step == CurrentStepOf(current_step) IN
            IF SendsCommand(step)
            THEN \E out \in SendOutcomes :
                   LET response == SendCommandResult(out) IN
                   /\ sends' = IF InterfaceWrites THEN 1 ELSE 0
                   /\ last_response' = response
                   /\ IF ValidationFails(step, response)
                      THEN /\ procedure_status' = "failed"
                           /\ ret' = FALSE
                           /\ UNCHANGED current_step
                      ELSE /\ current_step' = AdvancedStep(current_step)
                           /\ ret' = TRUE
                           /\ UNCHANGED procedure_status
            ELSE /\ NoSend
                 /\ current_step' = AdvancedStep(current_step)
                 /\ ret' = TRUE
                 /\ UNCHANGED procedure_status
    /\ UNCHANGED <<current_procedure, obd_is_connected, pc, fetched>>

\* RelearnManager.cancel_procedure (relearn.py:360-372)
CancelProcedure ==
    /\ lastOp' = "cancel_procedure"
    /\ NoSend
    /\ IF CanCancel
       THEN /\ procedure_status' = "cancelled"
            /\ ret' = TRUE
       ELSE /\ ret' = FALSE
            /\ UNCHANGED procedure_status
    /\ UNCHANGED <<current_procedure, current_step, obd_is_connected, calls,
                   pc, fetched>>

\* OBDInterface.disconnect (obd_interface.py:74-79)
InterfaceDisconnect ==
    /\ obd_is_connected' = FALSE
    /\ lastOp' = "disconnect"
    /\ ret' = FALSE
    /\ NoSend
    /\ UNCHANGED <<current_procedure, procedure_status, current_step, calls,
                   pc, fetched>>

\* init_commands of OBDInterface._initialize_elm327 (obd_interface.py:88-95)
InitCommands == <<"ATZ", "ATE0", "ATL0", "ATS0", "ATH1", "ATSP0">>

\* the commands of _get_supported_protocols (obd_interface.py:152-162)
ProtocolQueries == <<"ATDP", "ATDPN">>

\* OBDInterface.connect (obd_interface.py:34-72) on a port that opens, with
\* an adapter that answers every command it receives with the expected
\* reply.  _initialize_elm327 runs before is_connected is set (lines 61-63),
\* and a _send_command that finds is_connected false returns None without
\* writing (line 119): the first command then fails and connect calls
\* disconnect.  The handshake goes through only on an interface that was
\* marked connected before the call.
InterfaceConnect ==
    /\ lastOp' = "connect"
    /\ IF InterfaceWrites
       THEN /\ sends' = Len(InitCommands) + Len(ProtocolQueries)
            /\ obd_is_connected' = TRUE
            /\ ret' = TRUE
       ELSE /\ sends' = 0
            /\ obd_is_connected' = FALSE
            /\ ret' = FALSE
    /\ last_response' = None
    /\ UNCHANGED <<current_procedure, procedure_status, current_step, calls,
                   pc, fetched>>

\* OBDInterface.connect in the other cases: no port is set (lines 47-49),
\* opening the port raises (lines 70-72), or the adapter answers one of the
\* commands it receives with something else (lines 97-101, then disconnect)
InterfaceConnectFails ==
    /\ lastOp' = "connect_failed"
    /\ ret' = FALSE
    /\ last_response' = None
    /\ \E port \in {"no_port", "open_raises", "bad_reply"} :
         IF port = "bad_reply"
         THEN /\ obd_is_connected' = FALSE
              /\ IF InterfaceWrites
                 THEN \E k \in 1..Len(InitCommands) : sends' = k
                 ELSE sends' = 0
         ELSE /\ sends' = 0
              /\ UNCHANGED obd_is_connected
    /\ UNCHANGED <<current_procedure, procedure_status, current_step, calls,
                   pc, fetched>>

-----------------------------------------------------------------------------
(* OBDManager.connect / disconnect (obd_manager.py:90-129) over            *)
(* AdapterManager (adapter_manager.py:135-229), ELM327Adapter.initialize   *)
(* (elm327.py:52-139) and ProtocolHandler.initialize                       *)
(* (protocol_handler.py:56-229).                                           *)

\* connection objects one run may create
MaxTransports == 3

TransportIds == 1..MaxTransports

\* AdapterManager.adapter is None
NoAdapter == [conn |-> 0, initialized |-> FALSE]

\* values ELM327Adapter.send_command returns (elm327.py:84-122): None when
\* the send fails or nothing is received, else the cleaned reply line.
\* Replies to a reset (ATZ):
ResetReplies == {
    None,
    Str(<<"E", "L", "M", "3", "2", "7", " ", "v", "1", ".", "5">>),
    Str(<<"E", "L", "M", "3", "2", "0", " ", "v", "2", ".", "0">>),
    Str(<<"O", "K">>) }

\* replies to a setting (ATSP0)
SettingReplies == {
    None,
    Str(<<"O", "K">>),
    Str(<<"?">>) }

\* replies to the Mode 01 PID 00 probe
ProbeReplies == {
    None,
    Str(<<"N", "O", " ", "D", "A", "T", "A">>),
    Str(<<"U", "N", "A", "B", "L", "E", " ", "T", "O", " ", "C", "O", "N", "N", "E", "C", "T">>),
    Str(<<"4", "1", "0", "0", "B", "E", "3", "F", "A", "8", "1", "3">>) }

\* replies to describe-protocol (ATDP)
DescribeReplies == {
    None,
    Str(<<"A", "U", "T", "O", ",", " ", "I", "S", "O", " ", "1", "5", "7", "6", "5", "-", "4", " ", "(", "C", "A", "N", " ", "1", "1", "/", "5", "0", "0", ")">>),
    Str(<<"I", "S", "O", " ", "1", "4", "2", "3", "0", "-", "4", " ", "(", "K", "W", "P", " ", "F", "A", "S", "T", ")">>),
    Str(<<"s", "a", "e", " ", "j", "1", "8", "5", "0", " ", "p", "w", "m">>) }

\* OBDProtocol members _parse_protocol_info can select
\* (protocol_handler.py:181-190), in the order the map is searched
ProtocolMap == <<
    [key |-> <<"I", "S", "O", " ", "9", "1", "4", "1", "-", "2">>, protocol |-> "ISO_9141_2"],
    [key |-> <<"K", "W", "P", "2", "0", "0", "0">>, protocol |-> "KWP2000_FAST"],
    [key |-> <<"C", "A", "N", " ", "1", "1", "/", "5", "0", "0">>, protocol |-> "CAN_11_500"],
    [key |-> <<"C", "A", "N", " ", "2", "9", "/", "5", "0", "0">>, protocol |-> "CAN_29_500"],
    [key |-> <<"C", "A", "N", " ", "1", "1", "/", "2", "5", "0">>, protocol |-> "CAN_11_250"],
    [key |-> <<"C", "A", "N", " ", "2", "9", "/", "2", "5", "0">>, protocol |-> "CAN_29_250"],
    [key |-> <<"S", "A", "E", " ", "J", "1", "8", "5", "0", " ", "P", "W", "M">>, protocol |-> "J1850_PWM"],
    [key |-> <<"S", "A", "E", " ", "J", "1", "8", "5", "0", " ", "V", "P", "W">>, protocol |-> "J1850_VPW"] >>

\* ProtocolHandler._parse_protocol_info (protocol_handler.py:175-205): the
\* first key found in the upper-cased, stripped text, else AUTO
ParseProtocolInfo(text) ==
    LET response == Upper(Strip(text))
        hits == {i \in 1..Len(ProtocolMap) :
                    Contains(response, Upper(ProtocolMap[i].key))}
    IN IF hits = {} THEN "AUTO"
       ELSE ProtocolMap[CHOOSE i \in hits : \A j \in hits : i <= j].protocol

\* ELM327Adapter._reset (elm327.py:124-139)
AdapterResetOk(reply) ==
    /\ Truthy(reply)
    /\ \/ Contains(reply.text, <<"E", "L", "M", "3", "2", "7">>)
       \/ Contains(reply.text, <<"E", "L", "M", "3", "2", "0">>)

\* ProtocolHandler._reset_adapter (protocol_handler.py:123-139)
HandlerResetOk(reply) ==
    /\ Truthy(reply)
    /\ Contains(reply.text, <<"E", "L", "M", "3", "2", "7">>)

\* ProtocolHandler._detect_protocol (protocol_handler.py:141-173): the replies
\* to ATSP0 and to 0100 decide; the reply to ATDP only names the protocol
DetectProtocolOk(atsp0, probe) ==
    /\ Truthy(atsp0)
    /\ Contains(atsp0.text, <<"O", "K">>)
    /\ Truthy(probe)

\* current_protocol after a successful _detect_protocol
\* (protocol_handler.py:159-169)
DetectedProtocol(atdp) ==
    IF Truthy(atdp) THEN ParseProtocolInfo(atdp.text) ELSE "AUTO"

\* connection.close() on connection number c (None when c = 0)
Closed(tr, c) == IF c = 0 THEN tr ELSE [tr EXCEPT ![c] = "closed"]

\* number of the next connection object create_connection returns
NextTransport == Cardinality({t \in TransportIds : transports[t] # "unused"}) + 1

\* what AdapterManager.connect meets before it opens a connection
\* (adapter_manager.py:160-170): port auto-detection finds nothing,
\* create_connection raises (no port in the parameters), or a connection
\* object is created
PortOutcomes == {"autodetect_failed", "create_raises", "created"}

\* the commands of ELM327Adapter.initialize (elm327.py:52-82): _reset,
\* _get_adapter_info, _configure_basic_settings
AdapterInitCommands ==
    <<"ATZ", "ATI", "ATRV", "AT@1", "ATE0", "ATL0", "ATS0", "ATM0">>

\* the commands of ProtocolHandler._configure_adapter
\* (protocol_handler.py:207-229)
ConfigureCommands == <<"ATE0", "ATL0", "ATS0", "ATH1", "ATST96">>

\* the test of the ATSP0 reply in _detect_protocol (protocol_handler.py:147)
SetAutoOk(atsp0) == Truthy(atsp0) /\ Contains(atsp0.text, <<"O", "K">>)

\* the commands ProtocolHandler.initialize issues (protocol_handler.py:56-87):
\* _reset_adapter, then _detect_protocol, then _configure_adapter, each only
\* when the one before succeeded
HandlerIssued(atz2, atsp0, probe) ==
    IF ~HandlerResetOk(atz2) THEN <<"ATZ">>
    ELSE IF ~SetAutoOk(atsp0) THEN <<"ATZ", "ATSP0">>
    ELSE IF ~Truthy(probe) THEN <<"ATZ", "ATSP0", "0100">>
    ELSE <<"ATZ", "ATSP0", "0100", "ATDP">> \o ConfigureCommands

\* the commands of _query_vehicle_info and _query_supported_pids
\* (obd_manager.py:239-274); pid20 says whether supported_pids holds 0x20
VehicleQueries(pid20) ==
    <<"0902", "0904", "0100">> \o (IF pid20 THEN <<"0120">> ELSE <<>>)

\* ELM327Adapter.close (elm327.py:325-335) sends ATPC when initialized
CloseCommands(adapter) == IF adapter.initialized THEN <<"ATPC">> ELSE <<>>

\* AdapterManager.is_connected (adapter_manager.py:220-229)
AdapterIsConnected ==
    /\ am_connected
    /\ am_connection # 0
    /\ transports[am_connection] = "open"
    /\ am_adapter.initialized

\* error_indicators of ProtocolHandler._is_error_response
\* (protocol_handler.py:236-248)
ErrorIndicators == {
    <<"N", "O", " ", "D", "A", "T", "A">>,
    <<"E", "R", "R", "O", "R">>,
    <<"S", "T", "O", "P", "P", "E", "D">>,
    <<"U", "N", "A", "B", "L", "E", " ", "T", "O", " ", "C", "O", "N", "N", "E", "C", "T">>,
    <<"B", "U", "S", " ", "I", "N", "I", "T">>,
    <<"B", "U", "S", " ", "E", "R", "R", "O", "R">>,
    <<"C", "A", "N", " ", "E", "R", "R", "O", "R">>,
    <<"F", "B", " ", "E", "R", "R", "O", "R">>,
    <<"D", "A", "T", "A", " ", "E", "R", "R", "O", "R">>,
    <<"L", "V", " ", "R", "E", "S", "E", "T">>,
    <<"?">> }

IsErrorResponse_CaseSensitive(response) ==
    response = <<>> \/ \E error \in ErrorIndicators : Contains(response, error)

\* ProtocolHandler._is_error_response (protocol_handler.py:231-251)
IsErrorResponse(response) ==
    response = <<>> \/ \E error \in ErrorIndicators : Contains(Upper(response), error)

\* values ELM327Adapter.send_command returns to a diagnostic command
CommandReplies == {
    None,
    Str(<<"4", "1", "0", "C", "1", "A", "F", "8">>),
    Str(<<"N", "O", " ", "D", "A", "T", "A">>),
    Str(<<"n", "o", " ", "d", "a", "t", "a">>),
    Str(<<"B", "U", "S", " ", "I", "N", "I", "T", ":", " ", ".", ".", ".", "E", "R", "R", "O", "R">>),
    Str(<<"S", "T", "O", "P", "P", "E", "D">>),
    Str(<<"U", "N", "A", "B", "L", "E", " ", "T", "O", " ", "C", "O", "N", "N", "E", "C", "T">>),
    Str(<<"B", "u", "s", " ", "E", "r", "r", "o", "r">>),
    Str(<<"C", "A", "N", " ", "E", "R", "R", "O", "R">>),
    Str(<<"?">>) }

\* commands callers pass to ProtocolHandler.send_command
\* (obd_manager.py:151-152, dtc_manager.py:120, dtc_manager.py:211)
HandlerCommands == {"010C", "03", "04"}

SendRejected_NoGuard == FALSE

\* the guard of ProtocolHandler.send_command (protocol_handler.py:100-102)
SendRejected == ~ph_initialized

\* what ProtocolHandler.send_command returns for the adapter's reply
\* (protocol_handler.py:108-116)
HandlerResult(reply) ==
    IF ~Truthy(reply) THEN None
    ELSE IF IsErrorResponse(reply.text) THEN None
    ELSE reply

InitManager ==
    /\ transports = [t \in TransportIds |-> "unused"]
    /\ am_connection = 0
    /\ am_adapter = NoAdapter
    /\ am_connected = FALSE
    /\ ph_initialized = FALSE
    /\ ph_current_protocol = Null
    /\ om_connected = FALSE
    /\ mgr_lastOp = "none"
    /\ mgr_ret = FALSE
    /\ issued = <<>>
    /\ ph_raw = None
    /\ ph_ret = None
    /\ probe_reply = None

\* AdapterManager.disconnect (adapter_manager.py:201-218) when
\* self.connection is connection number conn: the adapter is closed and
\* dropped, self.connection is closed and dropped
AdapterManagerDisconnect(tr, conn) ==
    /\ transports' = Closed(tr, conn)
    /\ am_connection' = 0
    /\ am_adapter' = NoAdapter
    /\ am_connected' = FALSE

\* AdapterManager.connect (adapter_manager.py:135-199) returning False; c is
\* the connection object the call creates
AdapterConnectFails(c) ==
    \E port \in PortOutcomes :
      IF port = "autodetect_failed"
      THEN \* adapter_manager.py:165-167
           /\ issued' = <<>>
           /\ UNCHANGED <<transports, am_connection, am_adapter, am_connected>>
      ELSE IF port = "create_raises"
      THEN \* adapter_manager.py:196-199
           /\ AdapterManagerDisconnect(transports, am_connection)
           /\ issued' = CloseCommands(am_adapter)
      ELSE
      \E openOk \in BOOLEAN :
      IF ~openOk
      THEN \* adapter_manager.py:170-174
           /\ transports' = [transports EXCEPT ![c] = "closed"]
           /\ am_connection' = c
           /\ issued' = <<>>
           /\ UNCHANGED <<am_adapter, am_connected>>
      ELSE \* adapter_manager.py:176-188
           \E atz1 \in ResetReplies :
           /\ ~AdapterResetOk(atz1)
           /\ transports' = [transports EXCEPT ![c] = "closed"]
           /\ am_connection' = c
           /\ am_adapter' = [conn |-> c, initialized |-> FALSE]
           /\ issued' = <<"ATZ">>
           /\ UNCHANGED am_connected

\* the fields AdapterManager.connect leaves when it returns True
\* (adapter_manager.py:169-194)
AdapterConnected(c) ==
    /\ \E atz1 \in ResetReplies : AdapterResetOk(atz1)
    /\ transports' = [transports EXCEPT ![c] = "open"]
    /\ am_connection' = c
    /\ am_adapter' = [conn |-> c, initialized |-> TRUE]
    /\ am_connected' = TRUE

\* AdapterManager.connect (adapter_manager.py:135-199) called by the owner of
\* the adapter manager, which OBDManager.__init__ receives from outside
\* (obd_manager.py:72-80)
AdapterConnect ==
    /\ NextTransport <= MaxTransports
    /\ mgr_lastOp' = "adapter_connect"
    /\ LET c == NextTransport IN
       \/ /\ AdapterConnectFails(c)
          /\ mgr_ret' = FALSE
       \/ /\ AdapterConnected(c)
          /\ issued' = AdapterInitCommands
          /\ mgr_ret' = TRUE
    /\ ph_raw' = None
    /\ ph_ret' = None
    /\ probe_reply' = None
    /\ UNCHANGED <<ph_initialized, ph_current_protocol, om_connected>>

\* OBDManager.connect when ProtocolHandler.initialize returns False
\* (protocol_handler.py:69-74, obd_manager.py:102-104) after issuing the
\* commands cmds on the connected adapter: the adapter is disconnected again
HandlerInitFails(c, cmds, probe) ==
    /\ \E atz1 \in ResetReplies : AdapterResetOk(atz1)
    /\ AdapterManagerDisconnect([transports EXCEPT ![c] = "open"], c)
    /\ issued' = AdapterInitCommands \o cmds \o <<"ATPC">>
    /\ probe_reply' = probe
    /\ mgr_ret' = FALSE
    /\ UNCHANGED <<ph_initialized, ph_current_protocol, om_connected>>

\* OBDManager.connect (obd_manager.py:90-119), with AdapterManager.connect
\* (adapter_manager.py:135-199) and ProtocolHandler.initialize
\* (protocol_handler.py:56-87) inlined.  c is the connection object this
\* call creates; the fields vehicle_info and supported_pids filled at
\* obd_manager.py:106-110 are not part of the session state modelled here.
ManagerConnect ==
    /\ NextTransport <= MaxTransports
    /\ mgr_lastOp' = "connect"
    /\ ph_raw' = None
    /\ ph_ret' = None
    /\ LET c == NextTransport IN
       \/ \* obd_manager.py:98-99
          /\ AdapterConnectFails(c)
          /\ mgr_ret' = FALSE
          /\ probe_reply' = None
          /\ UNCHANGED <<ph_initialized, ph_current_protocol, om_connected>>
       \/ \E atz2 \in ResetReplies :
          IF ~HandlerResetOk(atz2)
          THEN HandlerInitFails(c, HandlerIssued(atz2, None, None), None)
          ELSE
          \E atsp0 \in SettingReplies :
          IF ~SetAutoOk(atsp0)
          THEN HandlerInitFails(c, HandlerIssued(atz2, atsp0, None), None)
          ELSE
          \E probe \in ProbeReplies :
          IF ~DetectProtocolOk(atsp0, probe)
          THEN HandlerInitFails(c, HandlerIssued(atz2, atsp0, probe), probe)
          ELSE \* adapter_manager.py:190-194, protocol_handler.py:76-82,
               \* obd_manager.py:106-114
               /\ AdapterConnected(c)
               /\ probe_reply' = probe
               /\ ph_initialized' = TRUE
               /\ om_connected' = TRUE
               /\ mgr_ret' = TRUE
               /\ \E atdp \in DescribeReplies :
                    ph_current_protocol' = DetectedProtocol(atdp)
               /\ \E pid20 \in BOOLEAN :
                    issued' = AdapterInitCommands
                                \o HandlerIssued(atz2, atsp0, probe)
                                \o VehicleQueries(pid20)

\* OBDManager.disconnect (obd_manager.py:121-129)
ManagerDisconnect ==
    /\ mgr_lastOp' = "disconnect"
    /\ mgr_ret' = FALSE
    /\ AdapterManagerDisconnect(transports, am_connection)
    /\ issued' = CloseCommands(am_adapter)
    /\ om_connected' = FALSE
    /\ ph_raw' = None
    /\ ph_ret' = None
    /\ probe_reply' = None
    /\ UNCHANGED <<ph_initialized, ph_current_protocol>>

\* ProtocolHandler.send_command (protocol_handler.py:89-121) over
\* AdapterManager.send_command (adapter_manager.py:231-250)
HandlerSendCommand ==
    /\ mgr_lastOp' = "send_command"
    /\ probe_reply' = None
    /\ UNCHANGED <<transports, am_connection, am_adapter, am_connected,
                   ph_initialized, ph_current_protocol, om_connected>>
    /\ \E command \in HandlerCommands :
       IF SendRejected
       THEN \* protocol_handler.py:100-102
            /\ issued' = <<>>
            /\ ph_raw' = None
            /\ ph_ret' = None
       ELSE IF ~AdapterIsConnected
       THEN \* adapter_manager.py:242-244, protocol_handler.py:108-110
            /\ issued' = <<>>
            /\ ph_raw' = None
            /\ ph_ret' = None
       ELSE \* adapter_manager.py:247, protocol_handler.py:108-116
            \E reply \in CommandReplies :
            /\ issued' = <<command>>
            /\ ph_raw' = reply
            /\ ph_ret' = HandlerResult(reply)
    /\ mgr_ret' = ~ph_ret'.isNone

-----------------------------------------------------------------------------
(* ELM327Adapter.send_command (elm327.py:84-122) over SerialConnection     *)
(* send / receive (connection_types.py:149-187): framing and pacing of the *)
(* commands of one adapter session.  Time is counted in ticks of 0.05 s.   *)

\* ELM327Adapter.min_command_interval (elm327.py:50), 0.1 s in ticks
MinCommandInterval == 2

\* the latest clock value explored
MaxTime == 7

\* the send_command calls of one run
MaxCommands == 4

\* ticks one SerialConnection.receive may take
ReceiveTimes == 0..2

\* the prompt that ends every reply of the adapter (obd_interface.py:138)
Prompt == ">"

\* what the adapter puts on the line in answer to one command: nothing, or
\* lines ended by carriage returns and then the prompt
DeviceReplies == {
    <<>>,
    <<"4", "1", "\r", "\r", ">">>,
    <<"4", "3", "\r", "4", "7", "\r", "\r", ">">> }

\* serial_port.read_until (connection_types.py:178): the bytes up to and
\* including the first ch, or all of them when the read times out
RECURSIVE ReadUntil(_, _)
ReadUntil(buf, ch) ==
    IF buf = <<>> THEN <<>>
    ELSE IF Head(buf) = ch THEN <<ch>>
    ELSE <<Head(buf)>> \o ReadUntil(Tail(buf), ch)

\* SerialConnection.receive (connection_types.py:167-187) on the bytes read
Receive(data) == IF data = <<>> THEN None ELSE Str(Strip(data))

\* Python str.split(sep)
RECURSIVE Split(_, _)
Split(s, sep) ==
    LET at == {i \in 1..Len(s) : s[i] = sep}
    IN IF at = {} THEN <<s>>
       ELSE LET i == CHOOSE k \in at : \A j \in at : k <= j
            IN <<SubSeq(s, 1, i - 1)>> \o Split(SubSeq(s, i + 1, Len(s)), sep)

\* Python str.startswith
StartsWith(s, prefix) ==
    Len(s) >= Len(prefix) /\ SubSeq(s, 1, Len(prefix)) = prefix

\* ELM327Adapter._clean_response (elm327.py:188-214): the last line that is
\* not empty and does not start with AT, else the stripped text
CleanResponse(response) ==
    IF response = <<>> THEN <<>>
    ELSE LET cleaned == Strip(response)
             lines == Split(cleaned, "\r")
             kept == {i \in 1..Len(lines) :
                        /\ Strip(lines[i]) # <<>>
                        /\ ~StartsWith(Strip(lines[i]), <<"A", "T">>)}
         IN IF kept = {} THEN cleaned
            ELSE Strip(lines[CHOOSE i \in kept : \A j \in kept : j <= i])

\* what ELM327Adapter.send_command returns for the value of receive
\* (elm327.py:108-118)
AdapterResult(response) ==
    IF Truthy(response) THEN Str(CleanResponse(response.text)) ELSE None

\* the pacing sleep of ELM327Adapter.send_command (elm327.py:96-100)
SleepBeforeSend ==
    IF now - last_command_time < MinCommandInterval
    THEN MinCommandInterval - (now - last_command_time)
    ELSE 0

\* ELM327Adapter.__init__ (elm327.py:46-50); time.time() is far from 0
InitAdapter ==
    /\ rx = <<>>
    /\ now = MinCommandInterval
    /\ last_command_time = 0
    /\ write_time = 0
    /\ ad_calls = 0
    /\ ad_wrote = FALSE
    /\ ad_ret = None

\* ELM327Adapter.send_command (elm327.py:84-122)
AdapterSendCommand ==
    /\ ad_calls < MaxCommands
    /\ ad_calls' = ad_calls + 1
    /\ LET written == now + SleepBeforeSend
       IN /\ write_time' = written
          /\ \E sent \in BOOLEAN :
             IF ~sent
             THEN \* elm327.py:103-105
                  /\ written <= MaxTime
                  /\ now' = written
                  /\ ad_wrote' = FALSE
                  /\ ad_ret' = None
                  /\ UNCHANGED <<rx, last_command_time>>
             ELSE \* elm327.py:107-118
                  \E reply \in DeviceReplies, took \in ReceiveTimes :
                  /\ written + took <= MaxTime
                  /\ LET buf == rx \o reply
                         data == ReadUntil(buf, "\r")
                     IN /\ rx' = SubSeq(buf, Len(data) + 1, Len(buf))
                        /\ ad_ret' = AdapterResult(Receive(data))
                  /\ now' = written + took
                  /\ last_command_time' = written + took
                  /\ ad_wrote' = TRUE

\* time passing between two calls
Tick ==
    /\ now < MaxTime
    /\ now' = now + 1
    /\ UNCHANGED <<rx, last_command_time, write_time, ad_calls, ad_wrote, ad_ret>>

-----------------------------------------------------------------------------
(* OBDManager.start_monitoring / stop_monitoring (obd_manager.py:193-228):  *)
(* the monitoring threads and the caller's thread on one connected session  *)
(* (OBDManager.is_connected() holds throughout), each command going through *)
(* ELM327Adapter.send_command (elm327.py:103-108) as a send followed by a   *)
(* receive.                                                                 *)

\* threading.Thread objects one run may start
MaxThreads == 2

ThreadIds == 1..MaxThreads

\* the caller's thread, as owner of a command on the line
User == 0

\* the pids handed to start_monitoring, all in supported_pids
MonitoredPids == 2

\* a thread that start_monitoring has not created yet
NoThread == [pc |-> "unborn", left |-> 0, results |-> FALSE]

\* threads in the middle of a send+receive pair
InFlight ==
    {t \in ThreadIds : threads[t].pc = "receive"}
        \cup (IF user_pc = "receive" THEN {User} ELSE {})

\* OBDManager.__init__ (obd_manager.py:87-88), no thread started
InitMonitor ==
    /\ monitoring_active = FALSE
    /\ monitoring_callback = FALSE
    /\ threads = [t \in ThreadIds |-> NoThread]
    /\ user_pc = "idle"
    /\ line = <<>>
    /\ misdelivered = FALSE
    /\ stopped = FALSE

\* OBDManager.start_monitoring (obd_manager.py:193-222), called from the
\* caller's thread: an active monitoring is stopped first, then the flag and
\* the callback are set and a new thread is started
StartMonitoring ==
    /\ user_pc = "idle"
    /\ \E t \in ThreadIds :
         /\ threads[t].pc = "unborn"
         /\ \A u \in ThreadIds : u < t => threads[u].pc # "unborn"
         /\ threads' = [threads EXCEPT ![t].pc = "check"]
    /\ monitoring_active' = TRUE
    /\ monitoring_callback' = TRUE
    /\ stopped' = FALSE
    /\ UNCHANGED <<user_pc, line, misdelivered>>

\* OBDManager.stop_monitoring (obd_manager.py:224-228): clears the flag and
\* the callback field and returns
StopMonitoring ==
    /\ user_pc = "idle"
    /\ monitoring_active' = FALSE
    /\ monitoring_callback' = FALSE
    /\ stopped' = TRUE
    /\ UNCHANGED <<threads, user_pc, line, misdelivered>>

\* monitor_loop: the test of the while loop (obd_manager.py:209), then
\* query_multiple_parameters starts with empty results (obd_manager.py:185)
MonitorCheck(t) ==
    /\ threads[t].pc = "check"
    /\ threads' = [threads EXCEPT ![t] =
                     IF monitoring_active
                     THEN [pc |-> "query", left |-> MonitoredPids, results |-> FALSE]
                     ELSE [pc |-> "done", left |-> 0, results |-> FALSE]]
    /\ UNCHANGED <<monitoring_active, monitoring_callback, user_pc, line,
                   misdelivered, stopped>>

\* query_parameter of the next pid (obd_manager.py:186-188, 151-152) up to
\* connection.send (elm327.py:103)
MonitorSend(t) ==
    /\ threads[t].pc = "query"
    /\ threads' = [threads EXCEPT ![t].pc = "receive"]
    /\ line' = Append(line, t)
    /\ UNCHANGED <<monitoring_active, monitoring_callback, user_pc,
                   misdelivered, stopped>>

\* connection.receive (elm327.py:108) and the rest of query_parameter
\* (obd_manager.py:154-169, 188-190); parsed says whether a value came out
MonitorReceive(t) ==
    /\ threads[t].pc = "receive"
    /\ line # <<>>
    /\ line' = Tail(line)
    /\ misdelivered' = (misdelivered \/ Head(line) # t)
    /\ \E parsed \in BOOLEAN :
         LET left == threads[t].left - 1
             results == threads[t].results \/ parsed
         IN threads' = [threads EXCEPT ![t] =
                          [pc |-> IF left > 0 THEN "query"
                                  ELSE IF results THEN "callback"
                                  ELSE "sleep",
                           left |-> left, results |-> results]]
    /\ UNCHANGED <<monitoring_active, monitoring_callback, user_pc, stopped>>

\* callback(results) (obd_manager.py:212-213): the closure's own callback
\* argument, not the _monitoring_callback field
MonitorCallback(t) ==
    /\ threads[t].pc = "callback"
    /\ threads' = [threads EXCEPT ![t].pc = "sleep"]
    /\ UNCHANGED <<monitoring_active, monitoring_callback, user_pc, line,
                   misdelivered, stopped>>

\* time.sleep(interval) ends (obd_manager.py:214)
MonitorWake(t) ==
    /\ threads[t].pc = "sleep"
    /\ threads' = [threads EXCEPT ![t].pc = "check"]
    /\ UNCHANGED <<monitoring_active, monitoring_callback, user_pc, line,
                   misdelivered, stopped>>

\* a command of the caller's thread (OBDManager.query_parameter,
\* obd_manager.py:135-152) up to connection.send
UserSend ==
    /\ user_pc = "idle"
    /\ user_pc' = "receive"
    /\ line' = Append(line, User)
    /\ UNCHANGED <<monitoring_active, monitoring_callback, threads,
                   misdelivered, stopped>>

\* connection.receive of the caller's command
UserReceive ==
    /\ user_pc = "receive"
    /\ line # <<>>
    /\ user_pc' = "idle"
    /\ line' = Tail(line)
    /\ misdelivered' = (misdelivered \/ Head(line) # User)
    /\ UNCHANGED <<monitoring_active, monitoring_callback, threads, stopped>>

-----------------------------------------------------------------------------
(* DTCManager (dtc_manager.py:97-350): reading, decoding and clearing      *)
(* trouble codes.  A code is a sequence of five characters; the vehicle    *)
(* keeps its codes as 16-bit words written as four hex characters.         *)

\* the DTCManager calls and vehicle events of one run
MaxDtcCalls == 5

HexDigits == <<"0", "1", "2", "3", "4", "5", "6", "7", "8", "9",
               "A", "B", "C", "D", "E", "F">>

\* the value of one hex character
HexValue(c) == (CHOOSE i \in 1..16 : HexDigits[i] = UpperChar(c)) - 1

\* whether int(s, 16) accepts s
IsHexText(s) ==
    s # <<>> /\ \A i \in 1..Len(s) : \E k \in 1..16 : HexDigits[k] = UpperChar(s[i])

\* int(s, 16) of a hex text
RECURSIVE ParseHex(_)
ParseHex(s) ==
    IF s = <<>> THEN 0
    ELSE 16 * ParseHex(SubSeq(s, 1, Len(s) - 1)) + HexValue(s[Len(s)])

\* Python s[a:b] for 0 <= a <= b
PySlice(s, a, b) == SubSeq(s, a + 1, IF b < Len(s) THEN b ELSE Len(s))

DecodeDtc_WholeNibble(dtc_bytes) ==
    IF Len(dtc_bytes) # 4 \/ ~IsHexText(dtc_bytes) THEN None
    ELSE LET dtc_int == ParseHex(dtc_bytes)
             first_digit == (dtc_int \div 16384) % 4
         IN IF dtc_int = 0 THEN None
            ELSE Str(<<(IF first_digit < 2 THEN "P"
                        ELSE IF first_digit = 2 THEN "B" ELSE "C"),
                       HexDigits[((dtc_int \div 4096) % 16) + 1],
                       HexDigits[((dtc_int \div 256) % 16) + 1],
                       HexDigits[((dtc_int \div 16) % 16) + 1],
                       HexDigits[(dtc_int % 16) + 1]>>)

\* DTCManager._decode_dtc (dtc_manager.py:304-350)
DecodeDtc(dtc_bytes) ==
    IF Len(dtc_bytes) # 4 \/ ~IsHexText(dtc_bytes) THEN None
    ELSE LET dtc_int == ParseHex(dtc_bytes)
             first_digit == (dtc_int \div 16384) % 4
             second_digit == (dtc_int \div 4096) % 4
             third_digit == (dtc_int \div 256) % 16
             fourth_digit == (dtc_int \div 16) % 16
             fifth_digit == dtc_int % 16
             prefix == IF first_digit = 0 THEN "P"
                       ELSE IF first_digit = 1 THEN "P"
                       ELSE IF first_digit = 2 THEN "B"
                       ELSE IF first_digit = 3 THEN "C"
                       ELSE "U"
         IN IF dtc_int = 0 THEN None
            ELSE Str(<<prefix, HexDigits[second_digit + 1],
                       HexDigits[third_digit + 1], HexDigits[fourth_digit + 1],
                       HexDigits[fifth_digit + 1]>>)

RECURSIVE ParseWords_NoSkip(_, _, _)
ParseWords_NoSkip(data, i, num_dtcs) ==
    IF i >= num_dtcs THEN <<>>
    ELSE LET dtc_code == IF Len(data) >= 4
                         THEN DecodeDtc(PySlice(data, i * 4, (i + 1) * 4))
                         ELSE None
         IN <<IF dtc_code.isNone THEN <<"P", "0", "0", "0", "0">>
              ELSE dtc_code.text>> \o ParseWords_NoSkip(data, i + 1, num_dtcs)

\* the loop of _parse_dtc_response (dtc_manager.py:285-296) from word i on
RECURSIVE ParseWords(_, _, _)
ParseWords(data, i, num_dtcs) ==
    IF i >= num_dtcs THEN <<>>
    ELSE LET dtc_code == IF Len(data) >= 4
                         THEN DecodeDtc(PySlice(data, i * 4, (i + 1) * 4))
                         ELSE None
             rest == ParseWords(data, i + 1, num_dtcs)
         IN IF Truthy(dtc_code) /\ dtc_code.text # <<"P", "0", "0", "0", "0">>
            THEN <<dtc_code.text>> \o rest
            ELSE rest

\* DTCManager._parse_dtc_response (dtc_manager.py:256-302): the codes of
\* the DTC objects returned
ParseDtcResponse(response) ==
    LET upper == Upper(SelectSeq(response, LAMBDA c : c # " "))
        data == IF \/ StartsWith(upper, <<"4", "3">>)
                   \/ StartsWith(upper, <<"4", "7">>)
                   \/ StartsWith(upper, <<"4", "A">>)
                THEN PySlice(upper, 2, Len(upper))
                ELSE upper
    IN IF Len(data) < 2 THEN <<>>
       ELSE IF ~IsHexText(PySlice(data, 0, 2)) THEN <<>>
       ELSE ParseWords(PySlice(data, 2, Len(data)), 0, ParseHex(PySlice(data, 0, 2)))

\* the text the vehicle answers a read with: the response header, the number
\* of words as one byte, then the words
RECURSIVE Flatten(_)
Flatten(words) ==
    IF words = <<>> THEN <<>> ELSE Head(words) \o Flatten(Tail(words))

VehicleResponse(header, words) ==
    header \o <<"0", HexDigits[Len(words) + 1]>> \o Flatten(words)

\* the words a vehicle may hold in one of its three stores
VehicleStores == {
    <<>>,
    << <<"0", "3", "0", "0">> >>,
    << <<"0", "4", "2", "0">>, <<"9", "0", "0", "0">> >>,
    << <<"0", "0", "0", "0">>, <<"0", "0", "0", "0">> >>,
    << <<"0", "0", "0", "0">>, <<"0", "4", "2", "0">> >> }

\* what a call meets: OBDManager.is_connected() is false, send_command
\* returns None, or the vehicle answers
LinkOutcomes == {"not_connected", "no_response", "answered"}

ClearedLists_All == {"current", "pending", "permanent"}

\* the lists clear_dtcs empties (dtc_manager.py:213-217)
ClearedLists == {"current", "pending"}

\* DTCManager.__init__ (dtc_manager.py:97-108) on a vehicle without codes
InitDtc ==
    /\ veh_current = <<>>
    /\ veh_pending = <<>>
    /\ veh_permanent = <<>>
    /\ current_dtcs = <<>>
    /\ pending_dtcs = <<>>
    /\ permanent_dtcs = <<>>
    /\ dtc_history = <<>>
    /\ dtc_lastOp = "none"
    /\ dtc_ok = FALSE
    /\ dtc_returned = <<>>
    /\ dtc_calls = 0

\* what every step does to the observation variables
DtcCall(name) ==
    /\ dtc_calls < MaxDtcCalls
    /\ dtc_calls' = dtc_calls + 1
    /\ dtc_lastOp' = name

\* the vehicle detects faults: one of its stores gets new content
VehicleFault ==
    /\ DtcCall("fault")
    /\ \E store \in {"current", "pending", "permanent"},
          words \in VehicleStores \ {<<>>} :
         /\ veh_current' = IF store = "current" THEN words ELSE veh_current
         /\ veh_pending' = IF store = "pending" THEN words ELSE veh_pending
         /\ veh_permanent' = IF store = "permanent" THEN words ELSE veh_permanent
    /\ UNCHANGED <<current_dtcs, pending_dtcs, permanent_dtcs, dtc_history,
                   dtc_ok, dtc_returned>>

\* DTCManager.read_current_dtcs (dtc_manager.py:107-140)
ReadCurrentDtcs ==
    /\ DtcCall("read_current")
    /\ \E link \in LinkOutcomes :
         /\ dtc_ok' = (link = "answered")
         /\ IF link = "answered"
            THEN LET dtcs == ParseDtcResponse(VehicleResponse(<<"4", "3">>, veh_current))
                 IN /\ current_dtcs' = dtcs
                    /\ dtc_history' = dtc_history \o dtcs
                    /\ dtc_returned' = dtcs
            ELSE /\ dtc_returned' = <<>>
                 /\ UNCHANGED <<current_dtcs, dtc_history>>
    /\ UNCHANGED <<veh_current, veh_pending, veh_permanent, pending_dtcs,
                   permanent_dtcs>>

\* DTCManager.read_pending_dtcs (dtc_manager.py:142-168)
ReadPendingDtcs ==
    /\ DtcCall("read_pending")
    /\ \E link \in LinkOutcomes :
         /\ dtc_ok' = (link = "answered")
         /\ IF link = "answered"
            THEN LET dtcs == ParseDtcResponse(VehicleResponse(<<"4", "7">>, veh_pending))
                 IN /\ pending_dtcs' = dtcs
                    /\ dtc_returned' = dtcs
            ELSE /\ dtc_returned' = <<>>
                 /\ UNCHANGED pending_dtcs
    /\ UNCHANGED <<veh_current, veh_pending, veh_permanent, current_dtcs,
                   permanent_dtcs, dtc_history>>

\* DTCManager.read_permanent_dtcs (dtc_manager.py:170-196)
ReadPermanentDtcs ==
    /\ DtcCall("read_permanent")
    /\ \E link \in LinkOutcomes :
         /\ dtc_ok' = (link = "answered")
         /\ IF link = "answered"
            THEN LET dtcs == ParseDtcResponse(VehicleResponse(<<"4", "A">>, veh_permanent))
                 IN /\ permanent_dtcs' = dtcs
                    /\ dtc_returned' = dtcs
            ELSE /\ dtc_returned' = <<>>
                 /\ UNCHANGED permanent_dtcs
    /\ UNCHANGED <<veh_current, veh_pending, veh_permanent, current_dtcs,
                   pending_dtcs, dtc_history>>

\* DTCManager.clear_dtcs (dtc_manager.py:198-227); a vehicle that answers
\* Mode 04 has erased its current and pending codes and kept its permanent
\* ones
ClearDtcs ==
    /\ DtcCall("clear")
    /\ dtc_returned' = <<>>
    /\ \E link \in LinkOutcomes :
         /\ dtc_ok' = (link = "answered")
         /\ IF link = "answered"
            THEN /\ veh_current' = <<>>
                 /\ veh_pending' = <<>>
                 /\ current_dtcs' =
                      IF "current" \in ClearedLists THEN <<>> ELSE current_dtcs
                 /\ pending_dtcs' =
                      IF "pending" \in ClearedLists THEN <<>> ELSE pending_dtcs
                 /\ permanent_dtcs' =
                      IF "permanent" \in ClearedLists THEN <<>> ELSE permanent_dtcs
            ELSE UNCHANGED <<veh_current, veh_pending, current_dtcs,
                             pending_dtcs, permanent_dtcs>>
    /\ UNCHANGED <<veh_permanent, dtc_history>>

-----------------------------------------------------------------------------
(* The two decoders of a 16-bit trouble-code word written as four hex      *)
(* characters: DTCManager._decode_dtc (dtc_manager.py:304-350) and         *)
(* OBDInterface._hex_to_dtc (obd_interface.py:236-266).                    *)

\* f"{n:d}": the decimal digits of a natural number
RECURSIVE FormatDecimal(_)
FormatDecimal(n) ==
    IF n < 10 THEN <<HexDigits[n + 1]>>
    ELSE FormatDecimal(n \div 10) \o <<HexDigits[(n % 10) + 1]>>

\* f"{n:04d}": the decimal digits, zero-padded on the left to 4 characters
Format04d(n) ==
    LET digits == FormatDecimal(n)
    IN [i \in 1..(4 - Len(digits)) |-> "0"] \o digits

\* prefix_map.get(..., 'P') (obd_interface.py:254-255)
PrefixMap(bits) ==
    IF bits = 0 THEN "P"
    ELSE IF bits = 1 THEN "P"
    ELSE IF bits = 2 THEN "B"
    ELSE IF bits = 3 THEN "C"
    ELSE "P"

\* OBDInterface._hex_to_dtc (obd_interface.py:236-266)
HexToDtc(hex_code) ==
    IF Len(hex_code) # 4 THEN None
    ELSE IF \/ ~IsHexText(PySlice(hex_code, 0, 2))
            \/ ~IsHexText(PySlice(hex_code, 2, 4)) THEN None
    ELSE LET first_byte == ParseHex(PySlice(hex_code, 0, 2))
             second_byte == ParseHex(PySlice(hex_code, 2, 4))
             prefix == PrefixMap((first_byte \div 64) % 4)
             numeric == (first_byte % 64) * 256 + second_byte
         IN IF numeric = 0 THEN None
            ELSE Str(<<prefix>> \o Format04d(numeric))

\* the last three characters of the words given to the decoders
WordTails == {
    <<"0", "0", "0">>, <<"3", "0", "0">>, <<"4", "2", "0">>,
    <<"7", "1", "0">>, <<"0", "0", "1">>, <<"3", "E", "8">>,
    <<"A", "1", "C">>, <<"F", "F", "F">> }

\* the texts given to the decoders: every first hex digit before each tail,
\* a word written in lower case, a text of 3 characters and one that is not
\* hex (test_core.py:151-163)
DecodeWords ==
    {<<HexDigits[k]>> \o tail : k \in 1..16, tail \in WordTails}
    \cup { <<"3", "f", "f", "f">>, <<"0", "a", "1", "c">>,
           <<"0", "3", "0">>, <<"G", "3", "0", "0">> }

\* no decoder has been called
InitDecode ==
    /\ dec_word = <<>>
    /\ dec_fn = "none"
    /\ dec_code = None

\* a call of DTCManager._decode_dtc
DecodeDtcCall ==
    \E w \in DecodeWords :
        /\ dec_word' = w
        /\ dec_fn' = "decode_dtc"
        /\ dec_code' = DecodeDtc(w)

\* a call of OBDInterface._hex_to_dtc
HexToDtcCall ==
    \E w \in DecodeWords :
        /\ dec_word' = w
        /\ dec_fn' = "hex_to_dtc"
        /\ dec_code' = HexToDtc(w)

\* replies as the adapter's port delivers them: the echoed command, an empty
\* line, the reply text and the prompt, each present or not
\* (test_hardware.py:199-207)
CleanInputs ==
    [echo : {<<>>, <<"A", "T", "Z">>, <<"A", "T", "I">>},
     blank : BOOLEAN,
     reply : {<<"E", "L", "M", "3", "2", "7", " ", "v", "1", ".", "5">>, <<"O", "K">>, <<"4", "1", " ", "0", "C", " ", "1", "A", " ", "F", "8">>},
     prompt : BOOLEAN]

\* the text of a reply as read from the port
RawOf(in) ==
    (IF in.echo # <<>> THEN in.echo \o <<"\r">> ELSE <<>>)
    \o (IF in.blank THEN <<"\r">> ELSE <<>>)
    \o in.reply
    \o (IF in.prompt THEN <<"\r", ">">> ELSE <<>>)

\* a call of ELM327Adapter._clean_response
CleanResponseCall ==
    \E in \in CleanInputs :
        /\ dec_word' = RawOf(in)
        /\ dec_fn' = "clean_response"
        /\ dec_code' = Str(CleanResponse(RawOf(in)))

-----------------------------------------------------------------------------
(* DataParser (data_parser.py:18-106): parse_response cleaning the raw     *)
(* response and verifying it against the command.                          *)

\* str.split(): the maximal runs of characters that are not whitespace
RECURSIVE SplitWhitespace(_)
SplitWhitespace(s) ==
    LET t == LStrip(s)
        n == IF \E i \in 1..Len(t) : t[i] \in Whitespace
             THEN (CHOOSE i \in 1..Len(t) :
                       /\ t[i] \in Whitespace
                       /\ \A j \in 1..(i - 1) : t[j] \notin Whitespace) - 1
             ELSE Len(t)
    IN IF t = <<>> THEN <<>>
       ELSE <<SubSeq(t, 1, n)>> \o SplitWhitespace(SubSeq(t, n + 1, Len(t)))

\* sep.join(words)
RECURSIVE Join(_, _)
Join(words, sep) ==
    IF words = <<>> THEN <<>>
    ELSE IF Len(words) = 1 THEN words[1]
    ELSE words[1] \o sep \o Join(Tail(words), sep)

\* error_responses (data_parser.py:74)
ErrorResponses == {
    <<"N", "O", " ", "D", "A", "T", "A">>,
    <<"E", "R", "R", "O", "R">>,
    <<"S", "T", "O", "P", "P", "E", "D">>,
    <<"U", "N", "A", "B", "L", "E", " ", "T", "O", " ",
      "C", "O", "N", "N", "E", "C", "T">>,
    <<"?">> }

ParserCleanResponse_CheckFirst(response) ==
    IF response = <<>> THEN <<>>
    ELSE LET joined == Join(SplitWhitespace(Strip(response)), <<" ">>)
         IN IF \E err \in ErrorResponses : Contains(Upper(joined), err)
            THEN <<>>
            ELSE Upper(ReplaceChar(joined, " ", <<>>))

\* DataParser._clean_response (data_parser.py:48-78)
ParserCleanResponse(response) ==
    IF response = <<>> THEN <<>>
    ELSE LET stripped == Strip(response)
             joined == Join(SplitWhitespace(stripped), <<" ">>)
             cleaned == Upper(ReplaceChar(joined, " ", <<>>))
         IN IF \E err \in ErrorResponses : Contains(cleaned, err)
            THEN <<>>
            ELSE cleaned

\* f"{n:X}": the upper-case hex digits of a natural number
RECURSIVE FormatHex(_)
FormatHex(n) ==
    IF n < 16 THEN <<HexDigits[n + 1]>>
    ELSE FormatHex(n \div 16) \o <<HexDigits[(n % 16) + 1]>>

\* f"{n:02X}"
Format02X(n) ==
    LET digits == FormatHex(n)
    IN [i \in 1..(2 - Len(digits)) |-> "0"] \o digits

VerifyResponse_NoOffset(command, response) ==
    /\ command # <<>> /\ response # <<>>
    /\ Len(command) >= 2
    /\ IsHexText(PySlice(command, 0, 2))
    /\ StartsWith(response, Format02X(ParseHex(PySlice(command, 0, 2))))

\* DataParser._verify_response (data_parser.py:80-106)
VerifyResponse(command, response) ==
    IF command = <<>> \/ response = <<>> THEN FALSE
    ELSE IF Len(command) < 2 THEN FALSE
    ELSE IF ~IsHexText(PySlice(command, 0, 2)) THEN FALSE
    ELSE LET command_byte == ParseHex(PySlice(command, 0, 2))
             expected_response == Format02X(command_byte + 64)
         IN StartsWith(response, expected_response)

\* the commands given to the parser: Mode 01 PIDs, the VIN request, DTC
\* reads (one written in lower case), an adapter command, one character and
\* the empty text
ParserCommands == {
    <<"0", "1", "0", "C">>, <<"0", "1", "0", "D">>, <<"0", "1", "0", "0">>,
    <<"0", "9", "0", "2">>, <<"0", "3">>, <<"0", "a">>,
    <<"A", "T", "R", "V">>, <<"0">>, <<>> }

\* the raw responses given to the parser
ParserResponses == {
    <<>>,
    <<"4", "1", " ", "0", "C", " ", "1", "A", " ", "F", "8">>,
    <<" ", " ", "4", "1", " ", "0", "C", " ", "1", "A", " ", "F", "8",
      " ", " ", "\r", "\n">>,
    <<"4", "1", "0", "C", "1", "A", "F", "8">>,
    <<"4", "2", "0", "C", "1", "A", "F", "8">>,
    <<"4", "1", " ", "0", "d", " ", "3", "c", "\r">>,
    <<"4", "1", "\t", "0", "0", "\r", "\n", "b", "e">>,
    <<"4", "9", " ", "0", "2", " ", "0", "1">>,
    <<"4", "3", " ", "0", "1", " ", "0", "3", " ", "0", "0">>,
    <<"4", "a", " ", "0", "0">>,
    <<"7", "F", " ", "0", "1", " ", "1", "2">>,
    <<"N", "O", " ", "D", "A", "T", "A">>,
    <<"n", "o", " ", "d", "a", "t", "a", "\r", "\n">>,
    <<"U", "N", "A", "B", "L", "E", " ", "T", "O", " ",
      "C", "O", "N", "N", "E", "C", "T">>,
    <<"E", "R", "R", "O", "R">>,
    <<"E", "R", "R", " ", "O", "R">>,
    <<" ", "s", "t", "o", "p", "p", "e", "d", "\r">>,
    <<"?">>,
    <<"4", "1", "0", "C">>,
    <<"4", "1", " ", "0", "C", " ", "1", "A", " ", "F">>,
    <<"4", "1", " ", "0", "C", " ", "1", "A", " ", "G", "8">>,
    <<"4", "1", "0">> }

\* what a parser call returns: None, a list of numbers, a text (as the list
\* of its character codes) or the value of a PID formula (a list of bytes,
\* or a number as <<numerator, denominator>>)
NoneOut == [kind |-> "none", val |-> <<>>]
ListOut(l) == [kind |-> "list", val |-> l]
TextOut(t) == [kind |-> "text", val |-> t]
ValueOut(v) == [kind |-> "value", val |-> v]

ExtractDataBytes_KeepsNibble(command, response) ==
    IF Len(response) >= 4
    THEN LET data_part == PySlice(response, 4, Len(response))
             pairs == (Len(data_part) + 1) \div 2
         IN IF ~IsHexText(data_part) THEN <<>>
            ELSE [k \in 1..pairs |->
                     ParseHex(PySlice(data_part, 2 * k - 2, 2 * k))]
    ELSE <<>>

\* DataParser._extract_data_bytes (data_parser.py:108-137); a pair that
\* int(..., 16) rejects raises ValueError and the call returns []
ExtractDataBytes(command, response) ==
    IF Len(response) >= 4
    THEN LET data_part == PySlice(response, 4, Len(response))
             pairs == Len(data_part) \div 2
         IN IF \E k \in 1..pairs :
                   ~IsHexText(PySlice(data_part, 2 * k - 2, 2 * k))
            THEN <<>>
            ELSE [k \in 1..pairs |->
                     ParseHex(PySlice(data_part, 2 * k - 2, 2 * k))]
    ELSE <<>>

\* the value DataParser.parse_response returns (data_parser.py:18-46)
ParseResponseResult(command, response) ==
    LET cleaned == ParserCleanResponse(response)
    IN IF cleaned = <<>> THEN NoneOut
       ELSE IF ~VerifyResponse(command, cleaned) THEN NoneOut
       ELSE ListOut(ExtractDataBytes(command, cleaned))

\* Python truthiness of the Optional[List[int]] parse_response returns
HasData(parsed) == parsed.kind = "list" /\ parsed.val # <<>>

\* byte_val & (0x80 >> bit_idx) (data_parser.py:161)
BitSet(byte_val, bit_idx) == (byte_val \div (2 ^ (7 - bit_idx))) % 2 = 1

\* the list DataParser.parse_supported_pids returns (data_parser.py:139-169)
SupportedPids(response, base_pid) ==
    LET data_bytes ==
            ParseResponseResult(<<"0", "1">> \o Format02X(base_pid), response)
    IN IF ~HasData(data_bytes) \/ Len(data_bytes.val) < 4 THEN <<>>
       ELSE LET bits == [j \in 1..(8 * Len(data_bytes.val)) |-> j - 1]
                set == SelectSeq(bits, LAMBDA j :
                           BitSet(data_bytes.val[(j \div 8) + 1], j % 8))
            IN [i \in 1..Len(set) |-> base_pid + set[i]]

\* str.strip() of a text of printable characters given by their codes
StripCodes(codes) ==
    LET kept == {i \in 1..Len(codes) : codes[i] # 32}
    IN IF kept = {} THEN <<>>
       ELSE SubSeq(codes, CHOOSE i \in kept : \A j \in kept : i <= j,
                          CHOOSE i \in kept : \A j \in kept : i >= j)

\* the value DataParser.parse_vin returns (data_parser.py:171-205)
Vin(response) ==
    LET data_bytes == ParseResponseResult(<<"0", "9", "0", "2">>, response)
    IN IF ~HasData(data_bytes) THEN NoneOut
       ELSE LET vin_chars == SelectSeq(data_bytes.val,
                                       LAMBDA b : 32 <= b /\ b <= 126)
                vin == StripCodes(vin_chars)
            IN IF Len(vin) = 17 THEN TextOut(vin) ELSE NoneOut

\* the PIDs of OBDManager.STANDARD_PIDS (obd_manager.py:50-70)
StandardPids == {0, 1, 4, 5, 6, 7, 10, 11, 12, 13, 15, 16, 17, 31, 33, 47,
                 51, 66, 81}

\* the data bytes the formula of a PID reads
FormulaNeeds(pid) == IF pid \in {12, 16, 31, 33, 66} THEN 2 ELSE 1

\* the value of the formula of a PID (obd_manager.py:51-69) on the data
\* bytes x; a quotient is kept as <<numerator, denominator>>
Formula(pid, x) ==
    IF pid \in {0, 1} THEN x
    ELSE IF pid \in {4, 17, 47} THEN <<x[1] * 100, 255>>
    ELSE IF pid \in {5, 15} THEN <<x[1] - 40, 1>>
    ELSE IF pid \in {6, 7} THEN <<(x[1] - 128) * 100, 128>>
    ELSE IF pid = 10 THEN <<x[1] * 3, 1>>
    ELSE IF pid \in {11, 13, 51, 81} THEN <<x[1], 1>>
    ELSE IF pid = 12 THEN <<(x[1] * 256) + x[2], 4>>
    ELSE IF pid = 16 THEN <<(x[1] * 256) + x[2], 100>>
    ELSE IF pid \in {31, 33} THEN <<(x[1] * 256) + x[2], 1>>
    ELSE <<(x[1] * 256) + x[2], 1000>>

\* the value OBDManager.query_parameter returns (obd_manager.py:135-173)
\* for the response send_command returned; a formula that reads a byte
\* the list does not hold raises IndexError and the call returns None
QueryResult(connected, pid, response) ==
    IF ~connected THEN NoneOut
    ELSE IF ~Truthy(response) THEN NoneOut
    ELSE LET command == <<"0", "1">> \o Format02X(pid)
             parsed_data == ParseResponseResult(command, response.text)
         IN IF pid \in StandardPids /\ HasData(parsed_data)
            THEN IF Len(parsed_data.val) < FormulaNeeds(pid) THEN NoneOut
                 ELSE ValueOut(Formula(pid, parsed_data.val))
            ELSE parsed_data

\* the responses given to parse_supported_pids: the bitmap of test_core.py,
\* all bits set, the answers of two control units, two data bytes, an error
\* text and a bitmap for the second range
BitmapResponses == {
    <<"4", "1", "0", "0", "B", "E", "1", "F", "A", "8", "1", "3">>,
    <<"4", "1", " ", "0", "0", " ", "F", "F", " ", "F", "F", " ", "F", "F",
      " ", "F", "F">>,
    <<"4", "1", " ", "0", "0", " ", "B", "E", " ", "1", "F", " ", "A", "8",
      " ", "1", "3", "\r", "4", "1", " ", "0", "0", " ", "8", "0", " ",
      "0", "0", " ", "0", "0", " ", "0", "0">>,
    <<"4", "1", "0", "0", "F", "F", "F", "F">>,
    <<"N", "O", " ", "D", "A", "T", "A">>,
    <<"4", "1", " ", "2", "0", " ", "8", "0", " ", "0", "0", " ", "0", "0",
      " ", "0", "1">> }

\* the base PIDs OBDManager._query_supported_pids passes
\* (obd_manager.py:262-270)
BasePids == {1, 33}

\* the responses given to parse_vin: 17 characters, the same after the
\* item count 01, 16 characters, 18 characters, a space before 16
\* characters, and no data bytes
VinResponses == {
    <<"4", "9", " ", "0", "2", " ", "3", "1", " ", "4", "8", " ", "4", "7",
      " ", "4", "3", " ", "4", "D", " ", "3", "8", " ", "3", "2", " ", "3",
      "6", " ", "3", "3", " ", "3", "3", " ", "4", "1", " ", "3", "0", " ",
      "3", "0", " ", "3", "4", " ", "3", "3", " ", "3", "5", " ", "3", "2">>,
    <<"4", "9", " ", "0", "2", " ", "0", "1", " ", "3", "1", " ", "4", "8",
      " ", "4", "7", " ", "4", "3", " ", "4", "D", " ", "3", "8", " ", "3",
      "2", " ", "3", "6", " ", "3", "3", " ", "3", "3", " ", "4", "1", " ",
      "3", "0", " ", "3", "0", " ", "3", "4", " ", "3", "3", " ", "3", "5",
      " ", "3", "2">>,
    <<"4", "9", " ", "0", "2", " ", "3", "1", " ", "4", "8", " ", "4", "7",
      " ", "4", "3", " ", "4", "D", " ", "3", "8", " ", "3", "2", " ", "3",
      "6", " ", "3", "3", " ", "3", "3", " ", "4", "1", " ", "3", "0", " ",
      "3", "0", " ", "3", "4", " ", "3", "3", " ", "3", "5">>,
    <<"4", "9", " ", "0", "2", " ", "3", "1", " ", "4", "8", " ", "4", "7",
      " ", "4", "3", " ", "4", "D", " ", "3", "8", " ", "3", "2", " ", "3",
      "6", " ", "3", "3", " ", "3", "3", " ", "4", "1", " ", "3", "0", " ",
      "3", "0", " ", "3", "4", " ", "3", "3", " ", "3", "5", " ", "3", "2",
      " ", "3", "9">>,
    <<"4", "9", " ", "0", "2", " ", "2", "0", " ", "3", "1", " ", "4", "8",
      " ", "4", "7", " ", "4", "3", " ", "4", "D", " ", "3", "8", " ", "3",
      "2", " ", "3", "6", " ", "3", "3", " ", "3", "3", " ", "4", "1", " ",
      "3", "0", " ", "3", "0", " ", "3", "4", " ", "3", "3", " ", "3", "5">>,
    <<"4", "9", "0", "2">> }

\* the PIDs queried: four of the table and one outside it
QueriedPids == {0, 5, 12, 13, 94}

\* what send_command returned to query_parameter
QueryResponses == { None } \cup { Str(r) : r \in {
        <<"4", "1", " ", "0", "C", " ", "1", "A", " ", "F", "8">>,
        <<"4", "1", "0", "C">>,
        <<"4", "1", " ", "0", "C", " ", "1", "A">>,
        <<"4", "1", " ", "0", "C", " ", "1", "A", " ", "G", "8">>,
        <<"4", "1", " ", "0", "D", " ", "3", "C">>,
        <<"4", "1", " ", "0", "5", " ", "7", "B">>,
        <<"4", "1", " ", "0", "0", " ", "B", "E", " ", "1", "F", " ", "A", "8",
          " ", "1", "3">>,
        <<"7", "F", " ", "0", "1", " ", "1", "2">>,
        <<"4", "1", " ", "5", "E", " ", "0", "1", " ", "0", "2">> } }

\* no parser function has been called
InitParser ==
    /\ dp_fn = "none"
    /\ dp_command = <<>>
    /\ dp_response = <<>>
    /\ dp_cleaned = <<>>
    /\ dp_verified = FALSE
    /\ dp_out = NoneOut

\* DataParser.parse_response (data_parser.py:18-46) up to the verification:
\* an empty cleaned text returns None before _verify_response is called
ParseResponse ==
    \E command \in ParserCommands, response \in ParserResponses :
        LET cleaned == ParserCleanResponse(response)
        IN /\ dp_fn' = "parse_response"
           /\ dp_command' = command
           /\ dp_response' = response
           /\ dp_cleaned' = cleaned
           /\ dp_verified' = IF cleaned = <<>> THEN FALSE
                             ELSE VerifyResponse(command, cleaned)
           /\ dp_out' = ParseResponseResult(command, response)

\* DataParser._verify_response called on its own with a cleaned text, the
\* empty text included (test_core.py:42-57)
VerifyResponseCall ==
    \E command \in ParserCommands, response \in ParserResponses :
        LET cleaned == ParserCleanResponse(response)
        IN /\ dp_fn' = "verify_response"
           /\ dp_command' = command
           /\ dp_response' = cleaned
           /\ dp_cleaned' = cleaned
           /\ dp_verified' = VerifyResponse(command, cleaned)
           /\ dp_out' = NoneOut

\* DataParser.parse_supported_pids (data_parser.py:139-169)
ParseSupportedPids ==
    \E response \in BitmapResponses, base_pid \in BasePids :
        LET command == <<"0", "1">> \o Format02X(base_pid)
            cleaned == ParserCleanResponse(response)
        IN /\ dp_fn' = "parse_supported_pids"
           /\ dp_command' = command
           /\ dp_response' = response
           /\ dp_cleaned' = cleaned
           /\ dp_verified' = VerifyResponse(command, cleaned)
           /\ dp_out' = ListOut(SupportedPids(response, base_pid))

\* DataParser.parse_vin (data_parser.py:171-205)
ParseVin ==
    \E response \in VinResponses :
        LET cleaned == ParserCleanResponse(response)
        IN /\ dp_fn' = "parse_vin"
           /\ dp_command' = <<"0", "9", "0", "2">>
           /\ dp_response' = response
           /\ dp_cleaned' = cleaned
           /\ dp_verified' = VerifyResponse(<<"0", "9", "0", "2">>, cleaned)
           /\ dp_out' = Vin(response)

\* OBDManager.query_parameter (obd_manager.py:135-173)
QueryParameter ==
    \E connected \in BOOLEAN, pid \in QueriedPids,
       response \in QueryResponses :
        LET command == <<"0", "1">> \o Format02X(pid)
            cleaned == ParserCleanResponse(response.text)
        IN /\ dp_fn' = "query_parameter"
           /\ dp_command' = command
           /\ dp_response' = response.text
           /\ dp_cleaned' = cleaned
           /\ dp_verified' = VerifyResponse(command, cleaned)
           /\ dp_out' = QueryResult(connected, pid, response)

Init ==
    /\ InitRelearn /\ InitManager /\ InitAdapter /\ InitMonitor /\ InitDtc
    /\ InitDecode /\ InitParser

NextManager ==
    \/ ManagerConnect /\ UNCHANGED notManager
    \/ ManagerDisconnect /\ UNCHANGED notManager
    \/ AdapterConnect /\ UNCHANGED notManager
    \/ HandlerSendCommand /\ UNCHANGED notManager

\* the connection life cycle of OBDManager
SpecManager == Init /\ [][NextManager]_vars

\* C10: whenever OBDManager.connect() has returned false, the protocol
\* session is uninitialized and no transport is open.
C10_FailedConnectLeavesNoSession ==
    (mgr_lastOp = "connect" /\ mgr_ret = FALSE) =>
        /\ ~ph_initialized
        /\ \A t \in TransportIds : transports[t] # "open"

\* C11: after OBDManager.disconnect() has returned, ProtocolHandler.initialized
\* is false and current_protocol is null.
C11_DisconnectEndsSession ==
    mgr_lastOp = "disconnect" =>
        /\ ~ph_initialized
        /\ ph_current_protocol = Null

\* C12: ProtocolHandler.send_command called while the session is not
\* initialized returns null and passes no command to the adapter.
C12_UninitializedSendRejected ==
    (mgr_lastOp = "send_command" /\ ~ph_initialized) =>
        /\ ph_ret = None
        /\ issued = <<>>

\* a rejected send_command on a connected adapter
C12_Witness ==
    /\ mgr_lastOp = "send_command"
    /\ ~ph_initialized
    /\ AdapterIsConnected
    /\ ph_ret = None
    /\ issued = <<>>

\* the error patterns the specification lists
AdapterErrorPatterns == {
    <<"N", "O", " ", "D", "A", "T", "A">>,
    <<"E", "R", "R", "O", "R">>,
    <<"S", "T", "O", "P", "P", "E", "D">>,
    <<"U", "N", "A", "B", "L", "E", " ", "T", "O", " ", "C", "O", "N", "N", "E", "C", "T">>,
    <<"B", "U", "S", " ", "I", "N", "I", "T">>,
    <<"B", "U", "S", " ", "E", "R", "R", "O", "R">>,
    <<"C", "A", "N", " ", "E", "R", "R", "O", "R">>,
    <<"?">> }

\* C13: when the adapter's reply contains, in any letter case, one of the
\* error patterns, ProtocolHandler.send_command returns null.
C13_ErrorTextNeverReturned ==
    ( /\ mgr_lastOp = "send_command"
      /\ Truthy(ph_raw)
      /\ \E p \in AdapterErrorPatterns : Contains(Upper(ph_raw.text), p) )
    => ph_ret = None

\* a lower-case error reply was received and null returned
C13_Witness ==
    /\ mgr_lastOp = "send_command"
    /\ issued # <<>>
    /\ ph_raw = Str(<<"n", "o", " ", "d", "a", "t", "a">>)
    /\ ph_ret = None

\* the last call sent the Mode 01 PID 00 probe
ProbeSent == \E i \in 1..Len(issued) : issued[i] = "0100"

\* no response, or only an adapter error reply
NoVehicleResponse(reply) == ~Truthy(reply) \/ IsErrorResponse(reply.text)

\* C14: a connect whose PID 00 probe got no response or only an adapter error
\* reply fails and does not mark the session initialized.
C14_SilentVehicleFailsDetection ==
    [][ ( /\ mgr_lastOp' = "connect"
          /\ ProbeSent'
          /\ NoVehicleResponse(probe_reply') )
        => ( /\ ~mgr_ret'
             /\ ph_initialized' => ph_initialized ) ]_vars

\* the commands the last connect issued before ProtocolHandler.initialize
\* returned: all of them, or those before the first vehicle query (0902,
\* obd_manager.py:243)
Handshake ==
    LET queries == {i \in 1..Len(issued) : issued[i] = "0902"}
    IN IF queries = {} THEN issued
       ELSE SubSeq(issued, 1, (CHOOSE i \in queries : \A j \in queries : i <= j) - 1)

\* the handshake phase a command belongs to: 1 reset, 2 the
\* echo/linefeed/spaces/headers settings, 3 protocol selection, 0 other
HandshakePhase(cmd) ==
    IF cmd = "ATZ" THEN 1
    ELSE IF cmd \in {"ATE0", "ATL0", "ATS0", "ATH1"} THEN 2
    ELSE IF cmd \in {"ATSP0", "0100", "ATDP"} THEN 3
    ELSE 0

\* C15: a successful handshake issues reset, then the settings, then protocol
\* selection, in that order; in particular no reset follows a setting.
C15_HandshakeOrder ==
    (mgr_lastOp = "connect" /\ mgr_ret) =>
        LET h == Handshake
            phased == {i \in 1..Len(h) : HandshakePhase(h[i]) # 0}
        IN /\ \A p \in 1..3 : \E i \in phased : HandshakePhase(h[i]) = p
           /\ \A i, j \in phased :
                i < j => HandshakePhase(h[i]) <= HandshakePhase(h[j])

NextRelearn ==
    \/ (\E name \in StartNames : StartProcedure(name)) /\ UNCHANGED notRelearn
    \/ ExecuteNextStep /\ UNCHANGED notRelearn
    \/ CancelProcedure /\ UNCHANGED notRelearn
    \/ InterfaceDisconnect /\ UNCHANGED notRelearn
    \/ InterfaceConnect /\ UNCHANGED notRelearn
    \/ InterfaceConnectFails /\ UNCHANGED notRelearn

\* the relearn state machine, one call at a time
SpecRelearn == Init /\ [][NextRelearn]_vars

-----------------------------------------------------------------------------
(* Properties of the relearn state machine, one call at a time.            *)

TerminalStatus == {"completed", "failed", "cancelled"}

\* the last call was the k-th execute_next_step after a start_procedure, and
\* no step failed and nothing was cancelled on the way
RanCleanly(k) ==
    /\ current_procedure # Null
    /\ lastOp = "execute_next_step"
    /\ calls = k
    /\ procedure_status \notin {"failed", "cancelled"}

\* the step about to run is a command step: the call is accepted, steps
\* remain, and the current step sends its command
AtCommandStep ==
    /\ ~ExecRejected
    /\ ~ProcedureFinished
    /\ SendsCommand(CurrentStepOf(current_step))

\* C1 as stated: after start_procedure and exactly N successful calls to
\* execute_next_step (N the step count) the status is completed and the step
\* index is N.
C1_CompletedAfterNCalls ==
    RanCleanly(StepCount) =>
        /\ procedure_status = "completed"
        /\ current_step = StepCount

\* C1 amended: after exactly N successful calls the step index is N and the
\* status is still in_progress; the (N+1)-th call makes the status completed
\* and leaves the index at N.
C1_CompletedAfterNPlusOneCalls ==
    /\ RanCleanly(StepCount) =>
          /\ procedure_status = "in_progress"
          /\ current_step = StepCount
    /\ RanCleanly(StepCount + 1) =>
          /\ procedure_status = "completed"
          /\ current_step = StepCount

C1_Witness ==
    /\ RanCleanly(StepCount + 1)
    /\ procedure_status = "completed"
    /\ current_step = StepCount
    /\ ret = TRUE

\* C2: once the run is completed, every further execute_next_step returns
\* success, leaves the status completed and does not advance the step index.
C2_CompletedCallsSucceed ==
    [][(procedure_status = "completed" /\ lastOp' = "execute_next_step") =>
          /\ ret' = TRUE
          /\ procedure_status' = "completed"
          /\ current_step' = current_step]_vars

\* C3: cancel_procedure during in_progress makes the status cancelled, and
\* every execute_next_step while cancelled returns failure, writes no command
\* and leaves status and step index unchanged.
C3_CancelBlocksSteps ==
    [][/\ (procedure_status = "in_progress" /\ lastOp' = "cancel_procedure") =>
            (procedure_status' = "cancelled" /\ ret' = TRUE)
       /\ (procedure_status = "cancelled" /\ lastOp' = "execute_next_step") =>
            /\ ret' = FALSE
            /\ sends' = 0
            /\ procedure_status' = "cancelled"
            /\ current_step' = current_step]_vars

C3_Witness ==
    /\ procedure_status = "cancelled"
    /\ lastOp = "execute_next_step"
    /\ ret = FALSE
    /\ current_step > 0

\* C4: the status moves only along not_started -> in_progress,
\* in_progress -> completed | failed | cancelled, and terminal -> in_progress
\* by start_procedure alone; execute_next_step and cancel_procedure never
\* change a terminal status.
C4_StatusEdges ==
    [][/\ procedure_status' # procedure_status =>
            \/ /\ procedure_status = "not_started"
               /\ procedure_status' = "in_progress"
            \/ /\ procedure_status = "in_progress"
               /\ procedure_status' \in TerminalStatus
            \/ /\ procedure_status \in TerminalStatus
               /\ procedure_status' = "in_progress"
               /\ lastOp' = "start_procedure"
       /\ (/\ procedure_status \in TerminalStatus
           /\ lastOp' \in {"execute_next_step", "cancel_procedure"}) =>
            procedure_status' = procedure_status]_vars

\* a cancel_procedure call found the run completed and left it so
C4_Witness ==
    /\ procedure_status = "completed"
    /\ lastOp = "cancel_procedure"
    /\ ret = FALSE

\* C5: start_procedure during in_progress returns false and leaves the
\* current procedure, the status and the step index unchanged.
C5_StartRejectedInProgress ==
    [][(procedure_status = "in_progress" /\ lastOp' = "start_procedure") =>
          /\ ret' = FALSE
          /\ current_procedure' = current_procedure
          /\ procedure_status' = "in_progress"
          /\ current_step' = current_step]_vars

C5_Witness ==
    /\ procedure_status = "in_progress"
    /\ lastOp = "start_procedure"
    /\ ret = FALSE
    /\ current_step > 0

\* C6: while the run is in_progress the step index never decreases, one
\* execute_next_step advances it by at most one, and it stays within
\* 0 .. number of steps of the current procedure.
C6_StepIndexMonotone ==
    /\ [](procedure_status = "in_progress" =>
            (0 <= current_step /\ current_step <= StepCount))
    /\ [][/\ (procedure_status = "in_progress" /\ procedure_status' = "in_progress") =>
               current_step' >= current_step
          /\ lastOp' = "execute_next_step" =>
               (current_step' = current_step \/ current_step' = current_step + 1)]_vars

C6_Witness ==
    /\ procedure_status = "in_progress"
    /\ lastOp = "execute_next_step"
    /\ current_step = StepCount
    /\ current_step > 0

\* C7: when the response to a command step fails the step's validation rule
\* (a missing response included), execute_next_step returns failure, the
\* status becomes failed, the step index stays, the command was written at
\* most once, and calls made while failed write nothing.
C7_ValidationFailureFails ==
    [][/\ (/\ AtCommandStep
           /\ lastOp' = "execute_next_step"
           /\ CurrentStepOf(current_step).validation # Null
           /\ ~ValidateResponse(last_response',
                                CurrentStepOf(current_step).validation)) =>
            /\ ret' = FALSE
            /\ procedure_status' = "failed"
            /\ current_step' = current_step
            /\ sends' <= 1
       /\ (procedure_status = "failed" /\ lastOp' = "execute_next_step") =>
            /\ sends' = 0
            /\ ret' = FALSE
            /\ procedure_status' = "failed"
            /\ current_step' = current_step]_vars

C7_Witness ==
    /\ procedure_status = "failed"
    /\ lastOp = "execute_next_step"
    /\ ret = FALSE
    /\ sends = 1
    /\ Truthy(last_response)

\* C8: when the send of a command step yields no response, execute_next_step
\* returns failure and the run becomes failed without advancing, whether or
\* not the step declares a validation rule.
C8_SendErrorFails ==
    [][(/\ AtCommandStep
        /\ lastOp' = "execute_next_step"
        /\ ~Truthy(last_response')) =>
          /\ ret' = FALSE
          /\ procedure_status' = "failed"
          /\ current_step' = current_step]_vars

-----------------------------------------------------------------------------
(* execute_next_step on a worker thread, interleaved with start_procedure  *)
(* and cancel_procedure on another thread.  RelearnManager holds no lock,  *)
(* so the other thread runs between any two statements of the worker; the  *)
(* worker is cut where it blocks: at the send (relearn.py:283) and at the  *)
(* sleep (relearn.py:295).                                                 *)

\* relearn.py:267-278: the guards, the completion branch, the fetch of `step`
ExecBegin ==
    /\ pc = "idle"
    /\ calls < MaxCalls
    /\ calls' = calls + 1
    /\ IF ExecRejected
       THEN /\ ret' = FALSE
            /\ lastOp' = "execute_next_step"
            /\ NoSend
            /\ UNCHANGED <<procedure_status, pc, fetched>>
       ELSE IF ProcedureFinished
       THEN /\ procedure_status' = "completed"
            /\ ret' = TRUE
            /\ lastOp' = "execute_next_step"
            /\ NoSend
            /\ UNCHANGED <<pc, fetched>>
       ELSE /\ fetched' = CurrentStepOf(current_step)
            /\ pc' = "send"
            /\ UNCHANGED <<procedure_status, ret, lastOp, sends, last_response>>
    /\ UNCHANGED <<current_procedure, current_step, obd_is_connected>>

\* relearn.py:282-291: the send and the validation of the fetched step
ExecSend ==
    /\ pc = "send"
    /\ IF SendsCommand(fetched)
       THEN \E out \in SendOutcomes :
              LET response == SendCommandResult(out) IN
              /\ sends' = IF InterfaceWrites THEN 1 ELSE 0
              /\ last_response' = response
              /\ IF ValidationFails(fetched, response)
                 THEN /\ procedure_status' = "failed"
                      /\ ret' = FALSE
                      /\ lastOp' = "execute_next_step"
                      /\ pc' = "idle"
                      /\ fetched' = Null
                 ELSE /\ pc' = "sleep"
                      /\ UNCHANGED <<procedure_status, ret, lastOp, fetched>>
       ELSE /\ pc' = "sleep"
            /\ UNCHANGED <<procedure_status, ret, lastOp, fetched, sends,
                           last_response>>
    /\ UNCHANGED <<current_procedure, current_step, obd_is_connected, calls>>

\* relearn.py:294-300: after the sleep, the increment and the return
ExecAdvance ==
    /\ pc = "sleep"
    /\ current_step' = AdvancedStep(current_step)
    /\ ret' = TRUE
    /\ lastOp' = "execute_next_step"
    /\ pc' = "idle"
    /\ fetched' = Null
    /\ UNCHANGED <<current_procedure, procedure_status, obd_is_connected,
                   sends, last_response, calls>>

\* start_procedure on the controlling thread; the observation of the worker's
\* send is left alone while the worker is in flight
StartProcedureConc(name) ==
    /\ lastOp' = "start_procedure"
    /\ IF StartRejected(name)
       THEN /\ ret' = FALSE
            /\ UNCHANGED <<current_procedure, procedure_status, current_step, calls>>
       ELSE /\ current_procedure' = name
            /\ procedure_status' = "in_progress"
            /\ current_step' = 0
            /\ calls' = 0
            /\ ret' = TRUE
    /\ UNCHANGED <<obd_is_connected, pc, fetched, sends, last_response>>

\* cancel_procedure on the controlling thread
CancelProcedureConc ==
    /\ lastOp' = "cancel_procedure"
    /\ IF CanCancel
       THEN /\ procedure_status' = "cancelled"
            /\ ret' = TRUE
       ELSE /\ ret' = FALSE
            /\ UNCHANGED procedure_status
    /\ UNCHANGED <<current_procedure, current_step, obd_is_connected, calls,
                   pc, fetched, sends, last_response>>

NextRelearnConc ==
    \/ (\E name \in StartNames : StartProcedureConc(name)) /\ UNCHANGED notRelearn
    \/ CancelProcedureConc /\ UNCHANGED notRelearn
    \/ ExecBegin /\ UNCHANGED notRelearn
    \/ ExecSend /\ UNCHANGED notRelearn
    \/ ExecAdvance /\ UNCHANGED notRelearn

\* the relearn state machine with a call of execute_next_step in flight
SpecRelearnConc == Init /\ [][NextRelearnConc]_vars

\* C9: once cancel_procedure has made the status cancelled, the status stays
\* cancelled and the step index is not written again by an in-flight
\* execute_next_step; only a new start_procedure (the one step that makes the
\* status in_progress) ends this.
C9_CancelIsFinal ==
    [][(procedure_status = "cancelled" /\ procedure_status' # "in_progress") =>
          /\ procedure_status' = "cancelled"
          /\ current_step' = current_step]_vars

-----------------------------------------------------------------------------
(* Framing and pacing of the commands of one adapter session.              *)

NextAdapter ==
    \/ AdapterSendCommand /\ UNCHANGED notAdapter
    \/ Tick /\ UNCHANGED notAdapter

SpecAdapter == Init /\ [][NextAdapter]_vars

\* C16: a command is written only when no prompt of an earlier reply is still
\* unread on the transport.
C16_NoPipelining ==
    [][ (ad_calls' = ad_calls + 1 /\ ad_wrote')
        => \A i \in 1..Len(rx) : rx[i] # Prompt ]_vars

\* C17: the second of two consecutive send_command calls reaches the transport
\* at least the minimum interval after the first did, whatever the first
\* call's outcome.
C17_CommandPacing ==
    [][ (ad_calls' = ad_calls + 1 /\ ad_calls >= 1)
        => write_time' - write_time >= MinCommandInterval ]_vars

-----------------------------------------------------------------------------
(* Monitoring threads and the caller's thread on the shared transport.     *)

NextMonitor ==
    \/ StartMonitoring /\ UNCHANGED notMonitor
    \/ StopMonitoring /\ UNCHANGED notMonitor
    \/ (\E t \in ThreadIds : MonitorCheck(t)) /\ UNCHANGED notMonitor
    \/ (\E t \in ThreadIds : MonitorSend(t)) /\ UNCHANGED notMonitor
    \/ (\E t \in ThreadIds : MonitorReceive(t)) /\ UNCHANGED notMonitor
    \/ (\E t \in ThreadIds : MonitorCallback(t)) /\ UNCHANGED notMonitor
    \/ (\E t \in ThreadIds : MonitorWake(t)) /\ UNCHANGED notMonitor
    \/ UserSend /\ UNCHANGED notMonitor
    \/ UserReceive /\ UNCHANGED notMonitor

SpecMonitor == Init /\ [][NextMonitor]_vars

\* C18: at most one thread is inside a send+receive pair at a time, and every
\* receive reads the reply to its own thread's command.
C18_TransportSerialized ==
    /\ Cardinality(InFlight) <= 1
    /\ ~misdelivered

\* C19: once stop_monitoring has returned, no monitoring read is in flight,
\* the monitoring loop sends no further command and invokes no callback.
C19_NoActivityAfterStop ==
    [][ stopped =>
          \A t \in ThreadIds :
            /\ threads[t].pc # "receive"
            /\ threads'[t].pc = "receive" => threads[t].pc = "receive"
            /\ threads[t].pc = "callback" => threads'[t].pc = "callback" ]_vars

-----------------------------------------------------------------------------
(* Reading and clearing trouble codes.                                     *)

NextDtc ==
    \/ ReadCurrentDtcs /\ UNCHANGED notDtc
    \/ ReadPendingDtcs /\ UNCHANGED notDtc
    \/ ReadPermanentDtcs /\ UNCHANGED notDtc
    \/ ClearDtcs /\ UNCHANGED notDtc
    \/ VehicleFault /\ UNCHANGED notDtc

SpecDtc == Init /\ [][NextDtc]_vars

\* C20: clear_dtcs leaves the stored permanent codes as they were; an
\* answered read of the permanent codes right after a clear stores and
\* returns the codes the vehicle held before the clear; a clear that returns
\* false leaves the stored current and pending codes as they were.
C20_ClearKeepsPermanent ==
    [][ /\ dtc_lastOp' = "clear" => permanent_dtcs' = permanent_dtcs
        /\ (dtc_lastOp' = "clear" /\ ~dtc_ok')
             => (current_dtcs' = current_dtcs /\ pending_dtcs' = pending_dtcs)
        /\ (dtc_lastOp = "clear" /\ dtc_lastOp' = "read_permanent" /\ dtc_ok')
             => /\ dtc_returned' =
                     ParseDtcResponse(VehicleResponse(<<"4", "A">>, veh_permanent))
                /\ permanent_dtcs' = dtc_returned' ]_vars

\* a successful clear emptied a non-empty current list and left permanent
\* codes stored
C20_Witness ==
    /\ dtc_lastOp = "clear"
    /\ dtc_ok
    /\ dtc_history # <<>>
    /\ current_dtcs = <<>>
    /\ permanent_dtcs # <<>>

\* C21: after a call of read_current_dtcs (read_pending_dtcs), whatever its
\* outcome, the stored current (pending) list is the list the call returned.
C21_StoredReplacedOnRead ==
    [][ /\ dtc_lastOp' = "read_current" => current_dtcs' = dtc_returned'
        /\ dtc_lastOp' = "read_pending" => pending_dtcs' = dtc_returned' ]_vars

\* whether every code of list a occurs in list b
AllIn(a, b) == \A i \in 1..Len(a) : \E j \in 1..Len(b) : b[j] = a[i]

\* C22: the history never loses an entry, and every code a read of any of
\* the three kinds returned is in the history afterwards.
C22_HistoryAccumulates ==
    [][ /\ Len(dtc_history') >= Len(dtc_history)
        /\ SubSeq(dtc_history', 1, Len(dtc_history)) = dtc_history
        /\ dtc_lastOp' \in {"read_current", "read_pending", "read_permanent"}
             => AllIn(dtc_returned', dtc_history') ]_vars

ZeroWord == <<"0", "0", "0", "0">>

\* the words the vehicle holds in the store a read of the given kind asks for
StoreOf(kind) ==
    IF kind = "read_current" THEN veh_current
    ELSE IF kind = "read_pending" THEN veh_pending
    ELSE veh_permanent

\* C23: an answered read of any of the three kinds skips every word 0000 of
\* the response: the list returned has one code for each other word, none of
\* them P0000, and a response with count 2 and two zero words gives the
\* empty list.
C23_ZeroWordsSkipped ==
    [][ \A kind \in {"read_current", "read_pending", "read_permanent"} :
          (dtc_lastOp' = kind /\ dtc_ok') =>
            /\ \A i \in 1..Len(dtc_returned') :
                 dtc_returned'[i] # <<"P", "0", "0", "0", "0">>
            /\ Len(dtc_returned') =
                 Len(SelectSeq(StoreOf(kind), LAMBDA w : w # ZeroWord))
            /\ StoreOf(kind) = <<ZeroWord, ZeroWord>> => dtc_returned' = <<>> ]_vars

\* a read answered with count 2 and two zero words returned the empty list,
\* and another answered with a zero word and 0420 returned P0420 alone
C23_Witness ==
    /\ dtc_lastOp = "read_current"
    /\ dtc_ok
    /\ veh_current = <<ZeroWord, ZeroWord>>
    /\ dtc_returned = <<>>
    /\ veh_pending = <<ZeroWord, <<"0", "4", "2", "0">> >>
    /\ pending_dtcs = << <<"P", "0", "4", "2", "0">> >>

-----------------------------------------------------------------------------
(* Decoding of trouble-code words.                                         *)

NextDecode ==
    \/ DecodeDtcCall /\ UNCHANGED notDecode
    \/ HexToDtcCall /\ UNCHANGED notDecode
    \/ CleanResponseCall /\ UNCHANGED notDecode

SpecDecode == Init /\ [][NextDecode]_vars

\* a non-zero 16-bit word written as four hex characters
IsNonZeroWord(w) == Len(w) = 4 /\ IsHexText(w) /\ ParseHex(w) # 0

UpperHex == {HexDigits[k] : k \in 1..16}

C25_NetworkDecodable ==
    (dec_fn = "decode_dtc" /\ IsNonZeroWord(dec_word)) =>
        /\ dec_word = <<"F", "0", "0", "0">>
             => dec_code = Str(<<"U", "1", "0", "0", "0">>)
        /\ ParseHex(dec_word) \div 16384 = 3
             => (~dec_code.isNone /\ dec_code.text[1] = "U")

\* C26: distinct non-zero words decode to distinct codes, and codes of all
\* four prefixes P, B, C, U are produced.
C26_DecodeRoundTrip ==
    (dec_fn = "decode_dtc" /\ IsNonZeroWord(dec_word)) =>
        /\ \A w \in DecodeWords :
             (IsNonZeroWord(w) /\ ParseHex(w) # ParseHex(dec_word))
                 => DecodeDtc(w) # dec_code
        /\ \A p \in {"P", "B", "C", "U"} :
             \E w \in DecodeWords :
                 ~DecodeDtc(w).isNone /\ DecodeDtc(w).text[1] = p

\* C27: a code _hex_to_dtc produces for a non-zero word has five characters:
\* one of P, B, C, U and four decimal digits.
C27_HexToDtcFiveChars ==
    (dec_fn = "hex_to_dtc" /\ IsNonZeroWord(dec_word) /\ ~dec_code.isNone) =>
        /\ Len(dec_code.text) = 5
        /\ dec_code.text[1] \in {"P", "B", "C", "U"}
        /\ \A i \in 2..Len(dec_code.text) :
             dec_code.text[i] \in {HexDigits[k] : k \in 1..10}

-----------------------------------------------------------------------------
(* Cleaning and verification of responses by DataParser.                    *)

NextParser ==
    \/ ParseResponse /\ UNCHANGED notParser
    \/ VerifyResponseCall /\ UNCHANGED notParser
    \/ ParseSupportedPids /\ UNCHANGED notParser
    \/ ParseVin /\ UNCHANGED notParser
    \/ QueryParameter /\ UNCHANGED notParser

SpecParser == Init /\ [][NextParser]_vars

\* C28: _verify_response accepts exactly when the command starts with a hex
\* mode byte and the response starts with the two hex characters of that
\* byte + 0x40; so 01XX with 41XX<data> is accepted, and another leading
\* byte or an empty response is rejected.
C28_VerifyAcceptsMatchingMode ==
    dp_fn \in {"parse_response", "verify_response"} =>
        /\ dp_verified <=>
             /\ Len(dp_command) >= 2
             /\ IsHexText(SubSeq(dp_command, 1, 2))
             /\ Len(dp_cleaned) >= 2
             /\ {dp_cleaned[1], dp_cleaned[2]} \subseteq UpperHex
             /\ ParseHex(SubSeq(dp_cleaned, 1, 2))
                  = ParseHex(SubSeq(dp_command, 1, 2)) + 64
        /\ ( /\ Len(dp_command) = 4
             /\ SubSeq(dp_command, 1, 2) = <<"0", "1">>
             /\ Len(dp_cleaned) >= 4
             /\ SubSeq(dp_cleaned, 1, 4) = <<"4", "1">> \o SubSeq(dp_command, 3, 4) )
               => dp_verified
        /\ dp_cleaned = <<>> => ~dp_verified

\* parse_response accepted a spaced, padded 41 0C response for 010C, and
\* _verify_response called on its own rejected a 42 response for 010C
C28_Witness ==
    \/ /\ dp_fn = "parse_response"
       /\ dp_command = <<"0", "1", "0", "C">>
       /\ Len(dp_response) > Len(dp_cleaned)
       /\ dp_cleaned = <<"4", "1", "0", "C", "1", "A", "F", "8">>
       /\ dp_verified
    \/ /\ dp_fn = "verify_response"
       /\ dp_command = <<"0", "1", "0", "C">>
       /\ dp_cleaned = <<"4", "2", "0", "C", "1", "A", "F", "8">>
       /\ ~dp_verified

\* C29: cleaning a cleaned text again returns it unchanged, and
\* '  41 0C 1A F8  ' followed by CR LF cleans to '410C1AF8'.
C29_CleanIdempotent ==
    dp_fn = "parse_response" =>
        /\ ParserCleanResponse(dp_cleaned) = dp_cleaned
        /\ dp_response = <<" ", " ", "4", "1", " ", "0", "C", " ", "1", "A",
                           " ", "F", "8", " ", " ", "\r", "\n">>
             => dp_cleaned = <<"4", "1", "0", "C", "1", "A", "F", "8">>

\* the padded response was cleaned
C29_Witness ==
    /\ dp_fn = "parse_response"
    /\ dp_response = <<" ", " ", "4", "1", " ", "0", "C", " ", "1", "A",
                       " ", "F", "8", " ", " ", "\r", "\n">>
    /\ dp_cleaned = <<"4", "1", "0", "C", "1", "A", "F", "8">>

\* C30: a raw response containing NO DATA, ERROR, STOPPED, UNABLE TO CONNECT
\* or ?, in any letter case, cleans to the empty text.
C30_ErrorRepliesCleanToEmpty ==
    ( /\ dp_fn = "parse_response"
      /\ \E err \in ErrorResponses : Contains(Upper(dp_response), err) )
        => dp_cleaned = <<>>

\* the data bytes of the response the last call cleaned: the hex pairs
\* after the 4-character header of a verified response
DataPairs ==
    IF dp_verified /\ Len(dp_cleaned) >= 4
    THEN LET data == SubSeq(dp_cleaned, 5, Len(dp_cleaned))
         IN [k \in 1..(Len(data) \div 2) |-> SubSeq(data, 2 * k - 1, 2 * k)]
    ELSE <<>>

\* the PID the last command asks for
CommandPid == ParseHex(SubSeq(dp_command, 3, 4))

\* C31: parse_supported_pids returns the PIDs base + i, i in 0..31, whose
\* bit 31-i of the 32-bit bitmap is set, and no PID outside base..base+31;
\* all bits set with base 1 gives 1..32.
C31_SupportedPidsFromBitmap ==
    dp_fn = "parse_supported_pids" =>
        LET pids == {dp_out.val[i] : i \in 1..Len(dp_out.val)}
            bitmap == IF Len(DataPairs) >= 4
                      THEN [k \in 1..4 |-> ParseHex(DataPairs[k])]
                      ELSE <<0, 0, 0, 0>>
        IN /\ pids \subseteq CommandPid..(CommandPid + 31)
           /\ \A i \in 0..31 :
                (CommandPid + i \in pids)
                    <=> (bitmap[(i \div 8) + 1] \div (2 ^ (7 - (i % 8)))) % 2 = 1
           /\ (CommandPid = 1 /\ bitmap = <<255, 255, 255, 255>>)
                => dp_out.val = [i \in 1..32 |-> i]

\* C32: parse_vin returns a text only for exactly 17 data bytes that are all
\* printable, and then those 17 characters; for 16 or 18 data bytes it
\* returns null.
C32_VinExactlySeventeen ==
    dp_fn = "parse_vin" =>
        LET bytes == [k \in 1..Len(DataPairs) |-> ParseHex(DataPairs[k])]
        IN /\ dp_out.kind \in {"none", "text"}
           /\ dp_out.kind = "text" =>
                /\ Len(bytes) = 17
                /\ \A k \in 1..17 : 32 <= bytes[k] /\ bytes[k] <= 126
                /\ dp_out.val = bytes
           /\ Len(bytes) \in {16, 18} => dp_out.kind = "none"

\* C33: for a verified response parse_response returns the hex pairs after
\* the 4-character header, in order, without a trailing odd nibble; 010C
\* with 410C1AF8 gives [0x1A, 0xF8] and 410C gives the empty list.
C33_ExtractedBytes ==
    (dp_fn = "parse_response" /\ dp_verified) =>
        /\ dp_out.kind = "list"
        /\ (\A k \in 1..Len(DataPairs) : IsHexText(DataPairs[k]))
             => dp_out.val = [k \in 1..Len(DataPairs) |->
                                 16 * HexValue(DataPairs[k][1])
                                 + HexValue(DataPairs[k][2])]
        /\ dp_cleaned = <<"4", "1", "0", "C", "1", "A", "F", "8">>
             => dp_out.val = <<26, 248>>
        /\ dp_cleaned = <<"4", "1", "0", "C">> => dp_out.val = <<>>

\* a verified response with three data nibbles gave one byte
C33_Witness ==
    /\ dp_fn = "parse_response"
    /\ dp_verified
    /\ dp_cleaned = <<"4", "1", "0", "C", "1", "A", "F">>
    /\ dp_out = ListOut(<<26>>)

\* C34: for a PID of the standard table query_parameter returns the value
\* of the PID's formula or null; a response with non-hex characters, with
\* no data bytes or with fewer data bytes than the formula needs gives
\* null.
C34_ParseErrorsSurfaceAsNull ==
    (dp_fn = "query_parameter" /\ CommandPid \in StandardPids) =>
        /\ dp_out.kind \in {"none", "value"}
        /\ ( \/ \E k \in 1..Len(DataPairs) : ~IsHexText(DataPairs[k])
             \/ Len(DataPairs) < FormulaNeeds(CommandPid) )
             => dp_out = NoneOut

\* C35: when the port opens and the adapter answers every handshake command
\* with the expected reply, OBDInterface.connect returns true and leaves
\* is_connected true, so that later _send_command calls are written.
C35_ConnectSucceeds ==
    lastOp = "connect" => (ret /\ obd_is_connected /\ InterfaceWrites)

\* C36: ELM327Adapter._clean_response returns the reply line with the echoed
\* command and the trailing prompt removed: ATZ, an empty line, ELM327 v1.5
\* and the prompt give ELM327 v1.5.
C36_CleanReturnsReplyLine ==
    dec_fn = "clean_response" =>
        \A in \in CleanInputs :
            dec_word = RawOf(in) => dec_code = Str(in.reply)

\* the service ID of the commands validated with positive_response: their
\* first two characters (relearn.py:62-211)
ServiceId ==
    [c \in {"1003", "31010203", "31030203", "310105", "310106", "310107", "31010301", "31030301", "310201", "31010401", "31020401", "31030401"} |->
        IF c = "1003" THEN <<"1", "0">> ELSE <<"3", "1">>]

\* the positive-response byte of a command: its service ID + 0x40
PositiveResponseByte(command) ==
    Format02X(ParseHex(ServiceId[command]) + 64)

\* C37: the positive_response rule accepts a response exactly when it carries
\* the positive-response byte of the step's own command (service ID + 0x40):
\* 5003 to command 1003 is accepted, and a negative reply 7F.. is rejected
\* even if a byte 71-77 appears later in it.
C37_PositiveResponseOfOwnCommand ==
    [][(/\ AtCommandStep
        /\ lastOp' = "execute_next_step"
        /\ CurrentStepOf(current_step).validation = "positive_response") =>
          ((ret' /\ current_step' = current_step + 1) <=>
             StartsWith(last_response'.text,
                        PositiveResponseByte(CurrentStepOf(current_step).command)))]_vars

\* the validation rules that name a sensor threshold (relearn.py:329-340)
ThresholdValidations == {"temperature>80", "rpm>1800", "rpm<1000"}

\* C38: a step that declares a threshold validation (temperature>80,
\* rpm>1800, rpm<1000) is advanced past only after the live sensor reading
\* has been obtained and satisfies the threshold; when the step has no
\* command to send, the step index does not advance.
C38_ThresholdStepNeedsReading ==
    [][(/\ ~ExecRejected
        /\ ~ProcedureFinished
        /\ CurrentStepOf(current_step).validation \in ThresholdValidations
        /\ lastOp' = "execute_next_step") =>
          /\ (current_step' # current_step =>
                 (sends' >= 1 /\ Truthy(last_response')))
          /\ (~SendsCommand(CurrentStepOf(current_step)) =>
                 current_step' = current_step)]_vars

\* the monitoring threads that have been started and have not left
\* monitor_loop
AliveLoops == {t \in ThreadIds : threads[t].pc \notin {"unborn", "done"}}

\* C39: at most one monitoring loop is alive per OBDManager at any time:
\* under any interleaving of start_monitoring and stop_monitoring, an earlier
\* monitoring thread never keeps running alongside a newer one.
C39_SingleMonitorLoop == Cardinality(AliveLoops) <= 1

\* the connections the adapter manager has opened and not closed
OpenTransports == {t \in TransportIds : transports[t] = "open"}

\* C40: an AdapterManager holds at most one open transport: every connection
\* it opened earlier is closed before or when a new one is opened, and after
\* disconnect() has returned no connection opened by the manager remains
\* open.
C40_SingleOpenTransport ==
    /\ Cardinality(OpenTransports) <= 1
    /\ mgr_lastOp = "disconnect" => OpenTransports = {}

====
